---- MODULE Spec2Model ----
(***************************************************************************)
(* Analysis orchestration of GroveAssistant / StyleAssistant:              *)
(*   - the backend AnalysisService.analyze with its database cache         *)
(*     (products, analyses, cost_log tables) and the AI provider;          *)
(*   - the content script's retry controller (runAnalysis, parseError,     *)
(*     shouldAutoRetry, renderError, showRetryCountdown).                  *)
(* Money is counted in micro-dollars (1e-6 USD), the precision of          *)
(* calculate_cost's round(cost, 6).                                        *)
(***************************************************************************)
EXTENDS Integers, Sequences, FiniteSets, TLC

VARIABLES
    products,   \* products table: sequence of product_url, id = position
    analyses,   \* analyses table: sequence of rows, id = position
    cost_log,   \* cost_log table: sequence of rows
    now,        \* CURRENT_TIMESTAMP of the database, in seconds
    inv,        \* per request slot: the state of one AnalysisService.analyze call
    events,     \* per request slot: what the current call has done so far (history):
                \* <<"lookup">>, <<"gateway">>, <<"gateway_ok">>, <<"gateway_error">>,
                \* <<"store", row id>>, <<"log", row id>>; with <<"abandoned">>
                \* in front once the client has given up waiting for the call
    started,    \* number of analyze calls started so far (history)
    gatewayCalls, \* number of AI provider calls issued so far (history)
    solo,       \* per request slot: no other call was in progress during the
                \* slot's current call so far (history)
    prev,       \* per request slot: request and response of the call that ran
                \* right before the slot's current call and overlapped no other
                \* call, if there is one (history)
    \* content script (one instance, one page)
    retryCount, \* let retryCount
    view,       \* what the analysis box shows: "initial" (before init), "loading",
                \* "retrying", "analysis", "error", "countdown"
    lastError,  \* message of the failure being handled (rendered, or waiting for
                \* its auto-retry); a message is the set of keywords it contains
    lastResponse, \* the HTTP error response that failure came with, if it came
                \* with one: [status, retry_after] (history)
    timedOut,   \* that failure is the client's own abort of the request after
                \* its timeout (history)
    outstanding, \* analyzeCurrentProduct() promises not yet settled
    pendingRetry, \* delays of the auto-retry timers set and not yet fired
    countdown,  \* showRetryCountdown: [active, remaining]
    scheduled,  \* delays of all auto-retry timers set so far (history)
    failures,   \* failed attempts so far (history)
    onlyConnectivity, \* all failures so far were classified Connectivity (history)
    manual,     \* clicks on "Try Again" so far (history)
    \* pure functions called on their own
    versionCalls, \* the last calls of get_profile_version: <<argument, result>>
    lastCost,   \* the last call of calculate_cost: its arguments and outcome
    \* extension logger (one module instance)
    logQueue,   \* const logQueue: the entries waiting for a flush, oldest first;
                \* an entry is the number it was queued as
    flushTimeout, \* let flushTimeout: a flush timer is set
    flushes,    \* the flushLogs() calls that are waiting for getSettings or a fetch:
                \* [entries, pc, k, failed]
    attempts,   \* per entry queued so far: the fetches issued for it (history)
    lastCall,   \* the last Logger.info/warn/error call: its level and how it
                \* came back to its caller (history)
    lastFlush,  \* the last flushLogs() promise that settled: how it settled and
                \* whether its getSettings or one of its fetches failed (history)
    \* AI provider called on its own
    lastPrompt, \* the last analyze_product or basic_analysis call: its arguments,
                \* the provider's enable_cache, and the messages.create request
    \* session id provider of the extension
    storage,    \* browser.storage.local: the sessionId and sessionStart keys
    clock,      \* Date.now(), in units of twenty minutes
    sessionCall, \* per caller: the state of its getSessionId() call
    created,    \* per session id generated so far: the Date.now() it was
                \* generated at (history)
    returned,   \* the last getSessionId() calls that returned (history)
    \* background worker of the extension
    handling,   \* per port: the handleMessage call that waits for its handler
    asked,      \* per port: the last message that came in (history)
    replies,    \* per port: how the handleMessage promises of that message
                \* settled (history)
    \* content script: the buttons of the error view that message the worker
    click,      \* the last click on "Open Settings": its sendMessage promise
                \* and what the click ended with
    \* quiz page
    currentQuestion, \* state.currentQuestion
    checked,    \* the questions whose inputs hold a selection (the DOM)
    answers,    \* state.answers: the questions whose selection was collected
    saving,     \* saveProfile() calls that are awaited
    toast,      \* the message of the error toast, if it is shown
    closed,     \* window.close() was called
    finishes,   \* saveProfile() calls started so far (history)
    okSaves,    \* saveProfile() calls that resolved (history)
    failedSaves \* saveProfile() calls that threw (history)

orchVars ==
    <<products, analyses, cost_log, now, inv, events, started, gatewayCalls, solo, prev>>

clientVars ==
    <<retryCount, view, lastError, lastResponse, timedOut, outstanding, pendingRetry, countdown,
      scheduled, failures, onlyConnectivity, manual>>

calcVars == <<versionCalls, lastCost>>

loggerVars == <<logQueue, flushTimeout, flushes, attempts, lastCall, lastFlush>>

promptVars == <<lastPrompt>>

sessionVars == <<storage, clock, sessionCall, created, returned>>

workerVars == <<handling, asked, replies>>

uiVars == <<click>>

quizVars ==
    <<currentQuestion, checked, answers, saving, toast, closed, finishes, okSaves, failedSaves>>

extraVars == <<workerVars, uiVars, quizVars>>

sideVars == <<loggerVars, promptVars, sessionVars, extraVars>>

vars == <<orchVars, clientVars, calcVars, sideVars>>

\* Optional values: Python None / JSON null is the empty tuple, a present value
\* x is <<x>>
None == << >>

Some(x) == <<x>>

\* the empty string "" among profile versions (versions are tuples)
EmptyString == << >>

(***************************************************************************)
(* Bounds of the model.                                                    *)
(***************************************************************************)
\* analyze calls per behaviour
MaxInvocations == 2

\* concurrent request slots of the ASGI server
Slots == {"r1", "r2"}
Urls == {"u1", "u2"}
Sessions == {"s1", "s2"}
Modes == {"full", "basic"}

\* concurrent runtime.sendMessage calls that reach the background worker
Ports == {"p1", "p2"}

\* no button of the error view was clicked
NoClick == [pc |-> "none"]

\* concurrent callers of getSessionId in the extension
Callers == {"a", "b"}
IdleSessionCall == [pc |-> "idle", alone |-> FALSE]

(***************************************************************************)
(* Profiles: a JSON object is an ordered list of pairs with distinct keys   *)
(* (a Python dict keeps insertion order); a pair is <<key, value>> for a   *)
(* string value and <<key, "{}", object>> for a nested object.             *)
(***************************************************************************)
ProfileA == << <<"fit_preferences", "oversized">>, <<"color_palette", "black">> >>
ProfileAReordered == << <<"color_palette", "black">>, <<"fit_preferences", "oversized">> >>
ProfileB == << <<"fit_preferences", "relaxed">>, <<"color_palette", "black">> >>
EmptyProfile == << >>

\* the user_profile values a request can carry
RequestProfiles ==
    {None, Some(EmptyProfile), Some(ProfileA), Some(ProfileAReordered), Some(ProfileB)}

\* rank of a key in the order of Python string comparison
KeyRank(k) ==
    CASE k = "bottom" -> 1
      [] k = "color_palette" -> 2
      [] k = "fit_preferences" -> 3
      [] k = "sizes" -> 4
      [] OTHER -> 5

\* Python truthiness of Optional[dict]: None and {} are falsy
Truthy(p) == p # None /\ p[1] # << >>

\* json.dumps(..., sort_keys=True, separators=(',', ':')): pairs sorted by key
RECURSIVE InsertByKey(_, _)
InsertByKey(pair, s) ==
    IF s = << >> THEN <<pair>>
    ELSE IF KeyRank(pair[1]) <= KeyRank(Head(s)[1]) THEN <<pair>> \o s
    ELSE <<Head(s)>> \o InsertByKey(pair, Tail(s))

\* json.dumps without sort_keys: the pairs in insertion order
KeepKeyOrder(p) == p

\* sort_keys applies to the objects at every depth
RECURSIVE SortKeys(_)
SortKeys(p) ==
    IF p = << >> THEN << >>
    ELSE LET pair == Head(p)
             sorted == IF Len(pair) = 3 THEN <<pair[1], pair[2], SortKeys(pair[3])>> ELSE pair
         IN InsertByKey(sorted, SortKeys(Tail(p)))

\* hashlib.sha256(normalized).hexdigest()[:16]: a tag that is a function of
\* the normalized text only (no collisions among the profiles modelled)
Sha256Hex16(normalized) == <<"sha256", normalized>>

get_profile_version(profile_data) == Sha256Hex16(SortKeys(profile_data))

\* the ways to write down an object with the given set of pairs
Orderings(pairs) ==
    {o \in [1..Cardinality(pairs) -> pairs] :
        \A j, k \in 1..Cardinality(pairs) : j # k => o[j] # o[k]}

\* the profiles get_profile_version is called with: ProfileA and ProfileB, a
\* profile with a nested object, each in every key order, and the empty one
Profiles ==
    Orderings({ProfileA[1], ProfileA[2]})
    \cup Orderings({ProfileB[1], ProfileB[2]})
    \cup UNION {Orderings({ProfileA[1], ProfileA[2], <<"sizes", "{}", nested>>}) :
                   nested \in Orderings({<<"top", "M">>, <<"bottom", "32">>})}
    \cup {EmptyProfile}

\* calls of get_profile_version that are remembered (a bound of the model)
MaxVersionCalls == 2

\* one call of get_profile_version
CallGetProfileVersion(profile_data) ==
    /\ versionCalls' =
           LET calls == Append(versionCalls,
                               [arg |-> profile_data, result |-> get_profile_version(profile_data)])
           IN IF Len(calls) > MaxVersionCalls THEN Tail(calls) ELSE calls
    /\ UNCHANGED <<orchVars, clientVars, lastCost, sideVars>>

\* `profile_version or ""`
OrEmpty(v) == IF v = None THEN EmptyString ELSE v[1]

(***************************************************************************)
(* AI provider (ClaudeProvider).                                           *)
(***************************************************************************)
SONNET_4_5 == "claude-sonnet-4.5-20250929"
HAIKU_4_5 == "claude-haiku-4.5-20250929"

\* PRICING in cents per million tokens (3.00 USD = 300)
PRICING ==
    [m \in {SONNET_4_5, HAIKU_4_5} |->
        IF m = SONNET_4_5
        THEN [input |-> 300, output |-> 1500, cache_read |-> 30, cache_write |-> 375]
        ELSE [input |-> 100, output |-> 500, cache_read |-> 10, cache_write |-> 125]]

\* Python round() to 6 decimals of an amount given in 1e-8 USD: the result in
\* micro-dollars, ties to even
Round6(x) ==
    LET q == x \div 100
        r == x % 100
    IN IF r > 50 \/ (r = 50 /\ q % 2 = 1) THEN q + 1 ELSE q

\* round(cost, 6) replaced by a cut after the sixth decimal
CalculateCostTruncated(tokens, model) ==
    LET pricing == PRICING[model]
    IN (tokens.input * pricing.input
        + tokens.output * pricing.output
        + tokens.cache_read * pricing.cache_read
        + tokens.cache_write * pricing.cache_write) \div 100

calculate_cost(tokens, model) ==
    LET pricing == PRICING[model]
    IN Round6(tokens.input * pricing.input
              + tokens.output * pricing.output
              + tokens.cache_read * pricing.cache_read
              + tokens.cache_write * pricing.cache_write)

\* a model identifier without a pricing record
UNPRICED_MODEL == "claude-opus-4"

CostModels == {SONNET_4_5, HAIKU_4_5, UNPRICED_MODEL}

\* token counts calculate_cost is called with, per category
TokenCounts == {-1, 0, 1, 7, 1000}

CostUsages ==
    [input : TokenCounts, output : TokenCounts, cache_read : TokenCounts,
     cache_write : TokenCounts]

\* `self.PRICING.get(model, self.PRICING[self.SONNET_4_5])`: an unknown model
\* is priced as Sonnet
CalculateCostWithDefaultPricing(tokens, model) ==
    IF model \in DOMAIN PRICING
    THEN [raised |-> "", value |-> calculate_cost(tokens, model)]
    ELSE [raised |-> "", value |-> calculate_cost(tokens, SONNET_4_5)]

\* how a call of calculate_cost ends: `self.PRICING[model]` raises KeyError
\* for a model that is not a key of PRICING, otherwise the rounded sum is
\* returned
CalculateCostOutcome(tokens, model) ==
    IF model \in DOMAIN PRICING
    THEN [raised |-> "", value |-> calculate_cost(tokens, model)]
    ELSE [raised |-> "KeyError", value |-> 0]

\* one call of calculate_cost
CallCalculateCost(tokens, model) ==
    /\ lastCost' = Some([tokens |-> tokens, model |-> model,
                         outcome |-> CalculateCostOutcome(tokens, model)])
    /\ UNCHANGED <<orchVars, clientVars, versionCalls, sideVars>>

\* usages the provider reports in the model (a first request: the cached
\* prefix is written)
ZeroUsage == [input |-> 0, output |-> 0, cache_read |-> 0, cache_write |-> 0]
TypicalUsage == [input |-> 500, output |-> 800, cache_read |-> 0, cache_write |-> 3000]
Usages == {TypicalUsage}

\* exceptions a provider call can raise
ProviderErrors == {"RateLimitError", "AIProviderError"}

\* _process_response: the result dict of one provider call; the analysis text
\* of call number n is named n
process_response(n, usage, model) ==
    [analysis |-> n, tokens |-> usage,
     cost_usd |-> calculate_cost(usage, model), model_used |-> model]

\* analyze_product uses Sonnet, basic_analysis uses Haiku
ModelFor(mode) == IF mode = "full" THEN SONNET_4_5 ELSE HAIKU_4_5

(***************************************************************************)
(* Database layer.                                                         *)
(***************************************************************************)
\* SELECT id FROM products WHERE product_url = ? (product_url is UNIQUE)
get_product_by_url(url) ==
    IF \E k \in 1..Len(products) : products[k] = url
    THEN Some(CHOOSE k \in 1..Len(products) : products[k] = url)
    ELSE None

\* a row of the analyses table; id is AUTOINCREMENT, created_at defaults to
\* CURRENT_TIMESTAMP
AnalysisRow(product_id, profile_version, model_used, analysis_type, analysis_data, tokens, cost_usd) ==
    [id |-> Len(analyses) + 1,
     product_id |-> product_id,
     profile_version |-> profile_version,
     model_used |-> model_used,
     analysis_type |-> analysis_type,
     analysis_data |-> analysis_data,
     tokens_input |-> tokens.input,
     tokens_output |-> tokens.output,
     tokens_cache_read |-> tokens.cache_read,
     tokens_cache_write |-> tokens.cache_write,
     cost_usd |-> cost_usd,
     created_at |-> now]

\* a row of the cost_log table
CostLogRow(session_id, model, tokens, cost_usd, request_type) ==
    [session_id |-> session_id,
     model |-> model,
     tokens_prompt |-> tokens.input,
     tokens_completion |-> tokens.output,
     tokens_cache_read |-> tokens.cache_read,
     tokens_cache_write |-> tokens.cache_write,
     cost_usd |-> cost_usd,
     request_type |-> request_type]

\* the WHERE clause without its analysis_type condition (the columns of
\* idx_analyses_lookup only)
MatchingRowsIgnoringType(product_id, profile_version, analysis_type) ==
    {k \in 1..Len(analyses) :
        /\ analyses[k].product_id = product_id
        /\ analyses[k].profile_version = profile_version}

\* WHERE product_id = ? AND profile_version = ? AND analysis_type = ?
MatchingRows(product_id, profile_version, analysis_type) ==
    {k \in 1..Len(analyses) :
        /\ analyses[k].product_id = product_id
        /\ analyses[k].profile_version = profile_version
        /\ analyses[k].analysis_type = analysis_type}

\* ORDER BY created_at DESC LIMIT 1: the rows the query may deliver; rows
\* with equal created_at come in an order SQL leaves open
OrderByCreatedAtDescLimit1(rows) ==
    {k \in rows : \A j \in rows : analyses[j].created_at <= analyses[k].created_at}

\* the analysis_data column is a JSON blob: json.dumps of the analysis dict
json_dumps(analysis) == <<"json", analysis>>

\* json.loads(row["analysis_data"])
json_loads(text) == text[2]

\* the dict get_cached_analysis builds from a row
CachedDict(row) ==
    [analysis_data |-> json_loads(row.analysis_data),
     model_used |-> row.model_used,
     tokens_used |-> [input |-> row.tokens_input, output |-> row.tokens_output],
     cost_usd |-> row.cost_usd,
     cached |-> TRUE]

\* get_cached_analysis: the set of values the call may return
get_cached_analysis(product_url, profile_version, analysis_type) ==
    LET found == get_product_by_url(product_url)
    IN IF found = None THEN {None}
       ELSE LET rows == MatchingRows(found[1], OrEmpty(profile_version), analysis_type)
            IN IF rows = {} THEN {None}
               ELSE {Some(CachedDict(analyses[k])) : k \in OrderByCreatedAtDescLimit1(rows)}

(***************************************************************************)
(* ClaudeProvider: the messages.create request.  A text is a tuple: what   *)
(* it starts with, then the JSON it embeds.                                *)
(***************************************************************************)
SystemPrompt == <<"get_system_prompt()">>

AnalysisSchema == <<"get_analysis_schema()">>

\* {"type": "ephemeral"} if use_cache else None
CacheControl(use_cache) == IF use_cache THEN Some("ephemeral") ELSE None

\* the schema block appended before the profile block
BuildSystemMessagesSchemaFirst(user_profile, use_cache) ==
    << [type |-> "text", text |-> SystemPrompt],
       [type |-> "text", text |-> AnalysisSchema,
        cache_control |-> CacheControl(use_cache)] >>
    \o (IF Truthy(user_profile)
        THEN << [type |-> "text",
                 text |-> <<"USER PROFILE:", json_dumps(user_profile[1])>>,
                 cache_control |-> CacheControl(use_cache)] >>
        ELSE << >>)

_build_system_messages(user_profile, use_cache) ==
    << [type |-> "text", text |-> SystemPrompt] >>
    \o (IF Truthy(user_profile)
        THEN << [type |-> "text",
                 text |-> <<"USER PROFILE:", json_dumps(user_profile[1])>>,
                 cache_control |-> CacheControl(use_cache)] >>
        ELSE << >>)
    \o << [type |-> "text", text |-> AnalysisSchema,
           cache_control |-> CacheControl(use_cache)] >>

\* the arguments of client.messages.create in analyze_product
analyze_product(product_data, user_profile, use_cache, enable_cache) ==
    [model |-> SONNET_4_5,
     max_tokens |-> 2048,
     system |-> _build_system_messages(user_profile, use_cache /\ enable_cache),
     messages |-> << [role |-> "user",
                      content |-> <<"Analyze this product:", json_dumps(product_data)>>] >>,
     beta |-> use_cache /\ enable_cache]

\* the arguments of client.messages.create in basic_analysis
basic_analysis(product_data, enable_cache) ==
    [model |-> HAIKU_4_5,
     max_tokens |-> 1024,
     system |-> _build_system_messages(None, enable_cache),
     messages |-> << [role |-> "user",
                      content |-> <<"Provide basic analysis:", json_dumps(product_data)>>] >>,
     beta |-> enable_cache]

\* the user_profile values analyze_product is called with
PromptProfiles == {None} \cup {Some(p) : p \in Profiles}

CallAnalyzeProduct(product_data, user_profile, use_cache, enable_cache) ==
    /\ lastPrompt' = Some([method |-> "analyze_product", product_data |-> product_data,
                           user_profile |-> user_profile, use_cache |-> use_cache,
                           enable_cache |-> enable_cache,
                           request |-> analyze_product(product_data, user_profile,
                                                       use_cache, enable_cache)])
    /\ UNCHANGED <<orchVars, clientVars, calcVars, loggerVars, sessionVars, extraVars>>

CallBasicAnalysis(product_data, enable_cache) ==
    /\ lastPrompt' = Some([method |-> "basic_analysis", product_data |-> product_data,
                           user_profile |-> None, enable_cache |-> enable_cache,
                           request |-> basic_analysis(product_data, enable_cache)])
    /\ UNCHANGED <<orchVars, clientVars, calcVars, loggerVars, sessionVars, extraVars>>

(***************************************************************************)
(* AnalysisService.analyze, one step per await.                            *)
(***************************************************************************)
Request(url, user_profile, mode, session_id) ==
    [url |-> url, user_profile |-> user_profile, mode |-> mode, session_id |-> session_id]

\* the requests of the model: a full-mode request with a profile, and requests
\* that differ from it in the mode, in the profile, in the item, or carry no
\* profile
Requests ==
    {Request("u1", Some(ProfileA), "full", "s1"),
     Request("u1", Some(ProfileA), "basic", "s2"),
     Request("u1", Some(ProfileB), "full", "s2"),
     Request("u2", Some(ProfileA), "full", "s1"),
     Request("u1", None, "basic", "s1"),
     Request("u1", None, "full", "s2")}

NoRequest == [url |-> "", user_profile |-> None, mode |-> "", session_id |-> ""]

NoResult == [analysis |-> 0, tokens |-> ZeroUsage, cost_usd |-> 0, model_used |-> ""]

\* what the caller of analyze gets: an AnalysisResponse, or the exception raised
NoResponse ==
    [status |-> "none", analysis_data |-> 0, cost_usd |-> 0, tokens_used |-> ZeroUsage,
     model_used |-> "", cached |-> FALSE, profile_version |-> None, error |-> ""]

\* AnalysisResponse(**cached): profile_version is not among the cached keys
CachedResponse(cached) ==
    [status |-> "ok", analysis_data |-> cached.analysis_data, cost_usd |-> cached.cost_usd,
     tokens_used |-> [input |-> cached.tokens_used.input, output |-> cached.tokens_used.output,
                      cache_read |-> 0, cache_write |-> 0],
     model_used |-> cached.model_used, cached |-> cached.cached,
     profile_version |-> None, error |-> ""]

\* Step 7: the response of a cache miss
FreshResponse(result, profile_version) ==
    [status |-> "ok", analysis_data |-> result.analysis, cost_usd |-> result.cost_usd,
     tokens_used |-> result.tokens, model_used |-> result.model_used, cached |-> FALSE,
     profile_version |-> profile_version, error |-> ""]

ErrorResponse(e) == [NoResponse EXCEPT !.status = "error", !.error = e]

IdleCall ==
    [pc |-> "idle", req |-> NoRequest, product_id |-> 0, profile_version |-> None,
     cached |-> None, call_no |-> 0, result |-> NoResult, resp |-> NoResponse]

\* a call of the slot is in progress
Busy(i) == inv[i].pc \notin {"idle", "done"}

\* Step 2: the version is computed whenever the request carries a (non-empty)
\* profile, whatever the mode
ResolveVersion(request) ==
    IF Truthy(request.user_profile)
    THEN Some(get_profile_version(request.user_profile[1]))
    ELSE None

\* Step 1 and Step 2 followed by the provider call of Step 4, with the cache
\* check of Step 3 left for later
BeginCallsProviderFirst(i, request) ==
    /\ inv[i].pc \in {"idle", "done"}
    /\ (i = "r2" => inv["r1"].pc \notin {"idle", "done"})
    /\ started < MaxInvocations
    /\ LET found == get_product_by_url(request.url)
           pid == IF found = None THEN Len(products) + 1 ELSE found[1]
       IN /\ products' = IF found = None THEN Append(products, request.url) ELSE products
          /\ inv' = [inv EXCEPT ![i] =
                        [IdleCall EXCEPT !.pc = "in_flight", !.req = request,
                                         !.product_id = pid,
                                         !.profile_version = ResolveVersion(request),
                                         !.call_no = gatewayCalls + 1]]
    /\ events' = [events EXCEPT ![i] = << <<"gateway">> >>]
    /\ started' = started + 1
    /\ gatewayCalls' = gatewayCalls + 1
    /\ UNCHANGED <<analyses, cost_log, now>>
    /\ solo' = [j \in Slots |-> IF j = i THEN \A k \in Slots \ {i} : ~Busy(k) ELSE FALSE]
    /\ prev' = [prev EXCEPT ![i] = IF inv[i].pc = "done" /\ solo[i] /\ \A k \in Slots \ {i} : ~Busy(k)
                                  THEN Some([req |-> inv[i].req, cached |-> inv[i].cached,
                                             resp |-> inv[i].resp])
                                  ELSE None]
    /\ UNCHANGED <<clientVars, calcVars, sideVars>>

\* Step 1: product_service.get_or_create, then Step 2
Begin(i, request) ==
    /\ inv[i].pc \in {"idle", "done"}
    \* the second slot serves a request only while the first one is busy
    /\ (i = "r2" => inv["r1"].pc \notin {"idle", "done"})
    /\ started < MaxInvocations
    /\ LET found == get_product_by_url(request.url)
           pid == IF found = None THEN Len(products) + 1 ELSE found[1]
       IN /\ products' = IF found = None THEN Append(products, request.url) ELSE products
          /\ inv' = [inv EXCEPT ![i] =
                        [IdleCall EXCEPT !.pc = "cache_check", !.req = request,
                                         !.product_id = pid,
                                         !.profile_version = ResolveVersion(request)]]
    /\ events' = [events EXCEPT ![i] = << >>]
    /\ started' = started + 1
    /\ UNCHANGED <<analyses, cost_log, now, gatewayCalls>>
    /\ solo' = [j \in Slots |-> IF j = i THEN \A k \in Slots \ {i} : ~Busy(k) ELSE FALSE]
    /\ prev' = [prev EXCEPT ![i] = IF inv[i].pc = "done" /\ solo[i] /\ \A k \in Slots \ {i} : ~Busy(k)
                                  THEN Some([req |-> inv[i].req, cached |-> inv[i].cached,
                                             resp |-> inv[i].resp])
                                  ELSE None]
    /\ UNCHANGED <<clientVars, calcVars, sideVars>>

\* Step 3 with a hit but without the early return: the provider is called all
\* the same
CacheHitWithoutReturn(i, cached) ==
    /\ inv' = [inv EXCEPT ![i].pc = "in_flight", ![i].cached = cached,
                          ![i].call_no = gatewayCalls + 1]
    /\ events' = [events EXCEPT ![i] = @ \o << <<"lookup">>, <<"gateway">> >>]
    /\ gatewayCalls' = gatewayCalls + 1
    /\ UNCHANGED <<products, analyses, cost_log, now, started>>
    /\ UNCHANGED <<solo, prev>>
    /\ UNCHANGED <<clientVars, calcVars, sideVars>>

\* Step 3 with a hit: `if cached: return AnalysisResponse(**cached)`
CacheHit(i, cached) ==
    /\ inv' = [inv EXCEPT ![i].pc = "done", ![i].cached = cached,
                          ![i].resp = CachedResponse(cached[1])]
    /\ events' = [events EXCEPT ![i] = Append(@, <<"lookup">>)]
    /\ UNCHANGED <<products, analyses, cost_log, now, started, gatewayCalls>>
    /\ UNCHANGED <<solo, prev>>
    /\ UNCHANGED <<clientVars, calcVars, sideVars>>

\* Step 3 with a miss under a per-key single-flight guard: while another call
\* with the same key is at the provider, the call is turned away
CacheMissSingleFlight(i) ==
    IF \E j \in Slots \ {i} :
           /\ inv[j].pc = "in_flight"
           /\ inv[j].req.url = inv[i].req.url
           /\ inv[j].profile_version = inv[i].profile_version
           /\ inv[j].req.mode = inv[i].req.mode
    THEN /\ inv' = [inv EXCEPT ![i].pc = "done", ![i].cached = None,
                               ![i].resp = ErrorResponse("AlreadyInFlight")]
         /\ events' = [events EXCEPT ![i] = Append(@, <<"lookup">>)]
         /\ UNCHANGED <<products, analyses, cost_log, now, started, gatewayCalls>>
         /\ UNCHANGED <<solo, prev>>
         /\ UNCHANGED <<clientVars, calcVars, sideVars>>
    ELSE /\ inv' = [inv EXCEPT ![i].pc = "in_flight", ![i].cached = None,
                               ![i].call_no = gatewayCalls + 1]
         /\ events' = [events EXCEPT ![i] = @ \o << <<"lookup">>, <<"gateway">> >>]
         /\ gatewayCalls' = gatewayCalls + 1
         /\ UNCHANGED <<products, analyses, cost_log, now, started>>
         /\ UNCHANGED <<solo, prev>>
         /\ UNCHANGED <<clientVars, calcVars, sideVars>>

\* Step 3 with a miss, and the provider call of Step 4 issued
CacheMiss(i) ==
    /\ inv' = [inv EXCEPT ![i].pc = "in_flight", ![i].cached = None,
                          ![i].call_no = gatewayCalls + 1]
    /\ events' = [events EXCEPT ![i] = @ \o << <<"lookup">>, <<"gateway">> >>]
    /\ gatewayCalls' = gatewayCalls + 1
    /\ UNCHANGED <<products, analyses, cost_log, now, started>>
    /\ UNCHANGED <<solo, prev>>
    /\ UNCHANGED <<clientVars, calcVars, sideVars>>

\* Step 3 with its result ignored: every call goes to the provider
CacheCheckAlwaysMisses(i) ==
    /\ inv[i].pc = "cache_check"
    /\ CacheMiss(i)

CacheCheck(i) ==
    /\ inv[i].pc = "cache_check"
    /\ \E cached \in get_cached_analysis(inv[i].req.url, inv[i].profile_version,
                                          inv[i].req.mode) :
          IF cached # None THEN CacheHit(i, cached) ELSE CacheMiss(i)

\* Step 4 returns: analyze_product / basic_analysis delivered a result
GatewaySucceed(i, usage) ==
    /\ inv[i].pc = "in_flight"
    /\ inv' = [inv EXCEPT ![i].pc = "store",
                          ![i].result = process_response(inv[i].call_no, usage,
                                                         ModelFor(inv[i].req.mode))]
    /\ events' = [events EXCEPT ![i] = Append(@, <<"gateway_ok">>)]
    /\ UNCHANGED <<products, analyses, cost_log, now, started, gatewayCalls>>
    /\ UNCHANGED <<solo, prev>>
    /\ UNCHANGED <<clientVars, calcVars, sideVars>>

\* Step 4 raises, and the failed call is written to the cost log before the
\* exception leaves analyze
GatewayFailLogged(i, e) ==
    /\ inv[i].pc = "in_flight"
    /\ cost_log' = Append(cost_log,
                          [session_id |-> inv[i].req.session_id,
                           model |-> ModelFor(inv[i].req.mode),
                           tokens_prompt |-> 0, tokens_completion |-> 0,
                           tokens_cache_read |-> 0, tokens_cache_write |-> 0,
                           cost_usd |-> 0, request_type |-> inv[i].req.mode])
    /\ inv' = [inv EXCEPT ![i].pc = "done", ![i].resp = ErrorResponse(e)]
    /\ events' = [events EXCEPT ![i] = @ \o << <<"gateway_error">>, <<"log", Len(cost_log) + 1>> >>]
    /\ UNCHANGED <<products, analyses, now, started, gatewayCalls>>
    /\ UNCHANGED <<solo, prev>>
    /\ UNCHANGED <<clientVars, calcVars, sideVars>>

\* Step 4 raises and the provider call is made once more
GatewayFailRetried(i, e) ==
    /\ inv[i].pc = "in_flight"
    /\ inv' = [inv EXCEPT ![i].call_no = gatewayCalls + 1]
    /\ events' = [events EXCEPT ![i] = @ \o << <<"gateway_error">>, <<"gateway">> >>]
    /\ gatewayCalls' = gatewayCalls + 1
    /\ UNCHANGED <<products, analyses, cost_log, now, started>>
    /\ UNCHANGED <<solo, prev>>
    /\ UNCHANGED <<clientVars, calcVars, sideVars>>

\* Step 4 raises: the exception leaves analyze
GatewayFail(i, e) ==
    /\ inv[i].pc = "in_flight"
    /\ inv' = [inv EXCEPT ![i].pc = "done", ![i].resp = ErrorResponse(e)]
    /\ events' = [events EXCEPT ![i] = Append(@, <<"gateway_error">>)]
    /\ UNCHANGED <<products, analyses, cost_log, now, started, gatewayCalls>>
    /\ UNCHANGED <<solo, prev>>
    /\ UNCHANGED <<clientVars, calcVars, sideVars>>

\* store_analysis: one INSERT INTO analyses
store_analysis(product_id, profile_version, model_used, analysis_type, analysis_data, tokens, cost_usd) ==
    analyses' = Append(analyses,
                       AnalysisRow(product_id, profile_version, model_used, analysis_type,
                                   json_dumps(analysis_data), tokens, cost_usd))

\* cost_service.log_cost: one INSERT INTO cost_log
log_cost(session_id, model, tokens, cost_usd, request_type) ==
    cost_log' = Append(cost_log, CostLogRow(session_id, model, tokens, cost_usd, request_type))

\* Step 5 left out: the result is logged and returned but never stored
StoreAnalysisSkipped(i) ==
    /\ inv[i].pc = "store"
    /\ inv' = [inv EXCEPT ![i].pc = "log"]
    /\ UNCHANGED <<products, analyses, cost_log, now, events, started, gatewayCalls>>
    /\ UNCHANGED <<solo, prev>>
    /\ UNCHANGED <<clientVars, calcVars, sideVars>>

\* Step 5 as INSERT OR REPLACE on the key: a row with the same product,
\* version and mode is overwritten
StoreAnalysisReplacing(i) ==
    /\ inv[i].pc = "store"
    /\ LET rows == MatchingRows(inv[i].product_id, OrEmpty(inv[i].profile_version),
                                inv[i].req.mode)
           k == IF rows = {} THEN Len(analyses) + 1 ELSE CHOOSE r \in rows : TRUE
           row == [AnalysisRow(inv[i].product_id, OrEmpty(inv[i].profile_version),
                               inv[i].result.model_used, inv[i].req.mode,
                               json_dumps(inv[i].result.analysis), inv[i].result.tokens,
                               inv[i].result.cost_usd) EXCEPT !.id = k]
       IN /\ analyses' = IF rows = {} THEN Append(analyses, row)
                         ELSE [analyses EXCEPT ![k] = row]
          /\ events' = [events EXCEPT ![i] = Append(@, <<"store", k>>)]
    /\ inv' = [inv EXCEPT ![i].pc = "log"]
    /\ UNCHANGED <<products, cost_log, now, started, gatewayCalls>>
    /\ UNCHANGED <<solo, prev>>
    /\ UNCHANGED <<clientVars, calcVars, sideVars>>

\* Step 5
StoreAnalysis(i) ==
    /\ inv[i].pc = "store"
    /\ store_analysis(inv[i].product_id, OrEmpty(inv[i].profile_version),
                      inv[i].result.model_used, inv[i].req.mode, inv[i].result.analysis,
                      inv[i].result.tokens, inv[i].result.cost_usd)
    /\ inv' = [inv EXCEPT ![i].pc = "log"]
    /\ events' = [events EXCEPT ![i] = Append(@, <<"store", Len(analyses) + 1>>)]
    /\ UNCHANGED <<products, cost_log, now, started, gatewayCalls>>
    /\ UNCHANGED <<solo, prev>>
    /\ UNCHANGED <<clientVars, calcVars, sideVars>>

\* Step 5 raises (the INSERT fails, CacheError): analyze has no try around
\* `await store_analysis(...)`, so the exception leaves analyze
StoreAnalysisFails(i) ==
    /\ inv[i].pc = "store"
    /\ inv' = [inv EXCEPT ![i].pc = "done", ![i].resp = ErrorResponse("CacheError")]
    /\ events' = [events EXCEPT ![i] = Append(@, <<"store_error">>)]
    /\ UNCHANGED <<products, analyses, cost_log, now, started, gatewayCalls>>
    /\ UNCHANGED <<solo, prev>>
    /\ UNCHANGED <<clientVars, calcVars, sideVars>>

\* Step 6 and Step 7
LogCostAndReturn(i) ==
    /\ inv[i].pc = "log"
    /\ log_cost(inv[i].req.session_id, inv[i].result.model_used, inv[i].result.tokens,
                inv[i].result.cost_usd, inv[i].req.mode)
    /\ inv' = [inv EXCEPT ![i].pc = "done",
                          ![i].resp = FreshResponse(inv[i].result, inv[i].profile_version)]
    /\ events' = [events EXCEPT ![i] = Append(@, <<"log", Len(cost_log) + 1>>)]
    /\ UNCHANGED <<products, analyses, now, started, gatewayCalls>>
    /\ UNCHANGED <<solo, prev>>
    /\ UNCHANGED <<clientVars, calcVars, sideVars>>

\* the client has given up waiting for the call of slot i
Abandoned(i) == events[i] # << >> /\ events[i][1] = <<"abandoned">>

\* the client's abort makes the server cancel the call: it ends at once
AbandonCancels(i) ==
    /\ Busy(i)
    /\ ~Abandoned(i)
    /\ events' = [events EXCEPT ![i] = << <<"abandoned">> >> \o @]
    /\ inv' = [inv EXCEPT ![i].pc = "done", ![i].resp = ErrorResponse("CancelledError")]
    /\ UNCHANGED <<products, analyses, cost_log, now, started, gatewayCalls>>
    /\ UNCHANGED <<solo, prev>>
    /\ UNCHANGED <<clientVars, calcVars, sideVars>>

\* the timeout of the client's fetchWithTimeout fires while the call of slot i
\* is in progress: controller.abort() ends the client's fetch; analyze has no
\* code that looks at the connection, and goes on
Abandon(i) ==
    /\ Busy(i)
    /\ ~Abandoned(i)
    /\ events' = [events EXCEPT ![i] = << <<"abandoned">> >> \o @]
    /\ UNCHANGED <<products, analyses, cost_log, now, inv, started, gatewayCalls>>
    /\ UNCHANGED <<solo, prev>>
    /\ UNCHANGED <<clientVars, calcVars, sideVars>>

\* the database clock passes a second boundary (only the order and equality
\* of created_at values is observable, so seconds in which no row was
\* inserted are not counted)
Tick ==
    /\ analyses # << >>
    /\ analyses[Len(analyses)].created_at = now
    /\ now' = now + 1
    /\ UNCHANGED <<products, analyses, cost_log, inv, events, started, gatewayCalls>>
    /\ UNCHANGED <<solo, prev>>
    /\ UNCHANGED <<clientVars, calcVars, sideVars>>

Init ==
    /\ products = << >>
    /\ analyses = << >>
    /\ cost_log = << >>
    /\ now = 0
    /\ inv = [i \in Slots |-> IdleCall]
    /\ events = [i \in Slots |-> << >>]
    /\ started = 0
    /\ gatewayCalls = 0
    /\ solo = [i \in Slots |-> FALSE]
    /\ prev = [i \in Slots |-> None]
    /\ retryCount = 0
    /\ view = "initial"
    /\ lastError = {}
    /\ lastResponse = None
    /\ timedOut = FALSE
    /\ outstanding = 0
    /\ pendingRetry = << >>
    /\ countdown = [active |-> FALSE, remaining |-> 0]
    /\ scheduled = << >>
    /\ failures = 0
    /\ onlyConnectivity = TRUE
    /\ manual = 0
    /\ versionCalls = << >>
    /\ lastCost = None
    /\ logQueue = << >>
    /\ flushTimeout = FALSE
    /\ flushes = {}
    /\ attempts = << >>
    /\ lastCall = None
    /\ lastFlush = None
    /\ lastPrompt = None
    /\ storage = None
    /\ clock = 0
    /\ sessionCall = [c \in Callers |-> IdleSessionCall]
    /\ created = << >>
    /\ returned = << >>
    /\ handling = [p \in Ports |-> None]
    /\ asked = [p \in Ports |-> None]
    /\ replies = [p \in Ports |-> << >>]
    /\ click = NoClick
    /\ currentQuestion = 1
    /\ checked = {}
    /\ answers = {}
    /\ saving = 0
    /\ toast = None
    /\ closed = FALSE
    /\ finishes = 0
    /\ okSaves = 0
    /\ failedSaves = 0

NextOrch ==
    \/ \E i \in Slots, request \in Requests : Begin(i, request)
    \/ \E i \in Slots : CacheCheck(i)
    \/ \E i \in Slots, usage \in Usages : GatewaySucceed(i, usage)
    \/ \E i \in Slots, e \in ProviderErrors : GatewayFail(i, e)
    \/ \E i \in Slots : StoreAnalysis(i)
    \/ \E i \in Slots : LogCostAndReturn(i)
    \/ Tick

SpecOrch == Init /\ [][NextOrch]_vars

\* the orchestrator with clients that time out
\* the orchestrator with a database whose INSERT INTO analyses can fail
NextStoreFault ==
    \/ NextOrch
    \/ \E i \in Slots : StoreAnalysisFails(i)

SpecStoreFault == Init /\ [][NextStoreFault]_vars

\* the requests of one client: the page's product with and without the profile
AbandonRequests ==
    {Request("u1", Some(ProfileA), "full", "s1"), Request("u1", None, "basic", "s1")}

NextAbandon ==
    \/ \E i \in Slots, request \in AbandonRequests : Begin(i, request)
    \/ \E i \in Slots : CacheCheck(i)
    \/ \E i \in Slots, usage \in Usages : GatewaySucceed(i, usage)
    \/ \E i \in Slots, e \in ProviderErrors : GatewayFail(i, e)
    \/ \E i \in Slots : StoreAnalysis(i)
    \/ \E i \in Slots : LogCostAndReturn(i)
    \/ Tick
    \/ \E i \in Slots : Abandon(i)

SpecAbandon == Init /\ [][NextAbandon]_vars

NextVersion == \E profile_data \in Profiles : CallGetProfileVersion(profile_data)

SpecVersion == Init /\ [][NextVersion]_vars

NextCost == \E tokens \in CostUsages, model \in CostModels : CallCalculateCost(tokens, model)

SpecCost == Init /\ [][NextCost]_vars

NextPrompt ==
    \/ \E product_data \in Urls, user_profile \in PromptProfiles, use_cache, enable_cache \in BOOLEAN :
           CallAnalyzeProduct(product_data, user_profile, use_cache, enable_cache)
    \/ \E product_data \in Urls, enable_cache \in BOOLEAN :
           CallBasicAnalysis(product_data, enable_cache)

SpecPrompt == Init /\ [][NextPrompt]_vars

(***************************************************************************)
(* Content script: error messages.  A message is modelled by the set of    *)
(* keywords (of parseError and shouldAutoRetry) that occur in its          *)
(* lower-cased text.                                                       *)
(***************************************************************************)
\* keywords per message (a bound of the model)
MaxKeywords == 2

Keywords ==
    {"api key", "unauthorized", "401", "rate limit", "429", "too many",
     "fetch", "network", "connection", "failed to fetch", "econnrefused", "localhost",
     "extract", "product data", "unsupported", "claude", "anthropic", "500",
     "timeout", "502", "503"}

\* sets of at most n keywords
RECURSIVE KeywordSets(_)
KeywordSets(n) ==
    IF n = 0 THEN {{}}
    ELSE LET smaller == KeywordSets(n - 1)
         IN smaller \cup {m \cup {k} : m \in smaller, k \in Keywords}

\* a text that contains "failed to fetch" contains "fetch"
Messages == {m \in KeywordSets(MaxKeywords) : "failed to fetch" \in m => "fetch" \in m}

\* lowerError.includes(keyword)
Includes(message, keyword) == keyword \in message

MAX_RETRIES == 3

RETRY_DELAYS == <<2000, 5000, 10000>>

\* retryDelay of the "Rate Limited" ErrorInfo
RateLimitRetryDelay == 60000

\* parseError: title, action and retryDelay (0: the field is absent)
parseError(error) ==
    IF Includes(error, "api key") \/ Includes(error, "unauthorized") \/ Includes(error, "401")
    THEN [title |-> "API Key Required", action |-> "settings", retryDelay |-> 0]
    ELSE IF Includes(error, "rate limit") \/ Includes(error, "429") \/ Includes(error, "too many")
    THEN [title |-> "Rate Limited", action |-> "retry", retryDelay |-> RateLimitRetryDelay]
    ELSE IF Includes(error, "fetch") \/ Includes(error, "network")
            \/ Includes(error, "connection") \/ Includes(error, "failed to fetch")
    THEN [title |-> "Connection Error", action |-> "retry", retryDelay |-> 0]
    ELSE IF Includes(error, "econnrefused") \/ Includes(error, "localhost")
    THEN [title |-> "Backend Offline", action |-> "none", retryDelay |-> 0]
    ELSE IF Includes(error, "extract") \/ Includes(error, "product data")
            \/ Includes(error, "unsupported")
    THEN [title |-> "Extraction Failed", action |-> "retry", retryDelay |-> 0]
    ELSE IF Includes(error, "claude") \/ Includes(error, "anthropic") \/ Includes(error, "500")
    THEN [title |-> "Analysis Service Error", action |-> "retry", retryDelay |-> 0]
    ELSE [title |-> "Analysis Failed", action |-> "retry", retryDelay |-> 0]

\* the error classification behind each ErrorInfo of parseError (no ErrorInfo
\* stands for Validation)
Classify(error) ==
    LET title == parseError(error).title
    IN CASE title = "API Key Required" -> "AuthRequired"
         [] title = "Rate Limited" -> "RateLimited"
         [] title = "Connection Error" -> "Connectivity"
         [] title = "Backend Offline" -> "Connectivity"
         [] title = "Extraction Failed" -> "Extraction"
         [] title = "Analysis Service Error" -> "UpstreamService"
         [] OTHER -> "Unknown"

shouldAutoRetry(error) ==
    \/ Includes(error, "fetch")
    \/ Includes(error, "network")
    \/ Includes(error, "timeout")
    \/ Includes(error, "500")
    \/ Includes(error, "502")
    \/ Includes(error, "503")

(***************************************************************************)
(* API client: what apiRequest throws for an error response.               *)
(***************************************************************************)
\* status codes of the error responses of the backend
HttpStatuses == {401, 429, 500, 503}

\* retry_after (in seconds) of a RateLimitError raised with a value of its own
ServerRetryAfter == 30

\* the `detail` of the response body: absent, a string (a message), or an
\* object, which is what the error middleware sends (`"detail": e.detail`,
\* a dict that holds retry_after for a RateLimitError and is empty otherwise)
Details ==
    {None}
    \cup {<<"text", m>> : m \in {m \in Messages : Cardinality(m) <= 1}}
    \cup {<<"object", retry_after>> : retry_after \in {None, Some(ServerRetryAfter)}}

\* `HTTP ${response.status}`
StatusText(status) ==
    CASE status = 401 -> {"401"}
      [] status = 429 -> {"429"}
      [] status = 500 -> {"500"}
      [] status = 503 -> {"503"}
      [] OTHER -> {}

\* String(object), the message of `new Error(object)`: "[object Object]",
\* which contains none of the keywords
ObjectObject == {}

\* the message of the Error apiRequest throws: `error.detail || ...`, where a
\* non-empty string and an object are truthy
apiRequestError(status, detail) ==
    IF detail = None THEN StatusText(status)
    ELSE IF detail[1] = "text" THEN detail[2]
    ELSE ObjectObject

\* "Request timed out. Please check if the backend is running.", the
\* message fetchWithTimeout throws for an AbortError: it contains none of the
\* keywords ("timed out" is not "timeout")
TimedOutMessage == {}

\* detail.retry_after
RetryAfterOf(detail) ==
    IF detail # None /\ detail[1] = "object" THEN detail[2] ELSE None

(***************************************************************************)
(* Content script: runAnalysis and its callbacks.                          *)
(***************************************************************************)
\* clicks on "Try Again" per behaviour (a bound of the model)
MaxManualRetries == 2

\* the auto-retry condition with `<=` for `<`
AutoRetryAllowedOffByOne(count, message) == count <= MAX_RETRIES /\ shouldAutoRetry(message)

\* `retryCount < MAX_RETRIES && shouldAutoRetry(message)`
AutoRetryAllowed(count, message) == count < MAX_RETRIES /\ shouldAutoRetry(message)

\* `RETRY_DELAYS[retryCount] || RETRY_DELAYS[RETRY_DELAYS.length - 1]`
RetryDelay(count) ==
    IF count + 1 <= Len(RETRY_DELAYS) THEN RETRY_DELAYS[count + 1]
    ELSE RETRY_DELAYS[Len(RETRY_DELAYS)]

\* runAnalysis up to its await: showLoading() and the request
StartAnalysis ==
    /\ view' = "loading"
    /\ lastError' = {}
    /\ lastResponse' = None
    /\ timedOut' = FALSE
    /\ outstanding' = outstanding + 1

\* init() on a product page
InitPage ==
    /\ view = "initial"
    /\ retryCount' = 0
    /\ StartAnalysis
    /\ UNCHANGED <<pendingRetry, countdown, scheduled, failures, onlyConnectivity, manual>>
    /\ UNCHANGED <<orchVars, calcVars, sideVars>>

\* the try branch of runAnalysis: the request delivered a result
AnalysisSucceeds ==
    /\ outstanding > 0
    /\ outstanding' = outstanding - 1
    /\ retryCount' = 0
    /\ view' = "analysis"
    /\ UNCHANGED <<lastError, lastResponse, timedOut, pendingRetry, countdown, scheduled, failures,
                   onlyConnectivity, manual>>
    /\ UNCHANGED <<orchVars, calcVars, sideVars>>

\* the catch branch of runAnalysis: the request failed with `message`
Catch(message, response) ==
    /\ outstanding > 0
    /\ outstanding' = outstanding - 1
    /\ failures' = failures + 1
    /\ onlyConnectivity' = (onlyConnectivity /\ Classify(message) = "Connectivity")
    /\ lastError' = message
    /\ lastResponse' = response
    /\ IF AutoRetryAllowed(retryCount, message)
       THEN /\ view' = "retrying"
            /\ pendingRetry' = Append(pendingRetry, RetryDelay(retryCount))
            /\ scheduled' = Append(scheduled, RetryDelay(retryCount))
       ELSE /\ view' = "error"
            /\ UNCHANGED <<pendingRetry, scheduled>>
    /\ UNCHANGED <<retryCount, countdown, manual>>
    /\ UNCHANGED <<orchVars, calcVars, sideVars>>

\* the request failed without a response: fetch threw (network error, abort
\* on timeout) or the message came from elsewhere in the extension
AnalysisFails(message) == Catch(message, None) /\ timedOut' = FALSE

\* the backend answered with an error status: apiRequest throws
\* `new Error(error.detail || \`HTTP ${response.status}\`)`
RequestRejected(status, detail) ==
    /\ Catch(apiRequestError(status, detail),
             Some([status |-> status, retry_after |-> RetryAfterOf(detail)]))
    /\ timedOut' = FALSE

\* the timeout of fetchWithTimeout fired before the backend answered:
\* controller.abort(), and the AbortError is replaced by TimedOutMessage
RequestTimesOut ==
    /\ Catch(TimedOutMessage, None)
    /\ timedOut' = TRUE

\* the auto-retry timer callback without its runAnalysis()
RetryTimerFiresWithoutRun ==
    /\ pendingRetry # << >>
    /\ pendingRetry' = Tail(pendingRetry)
    /\ retryCount' = retryCount + 1
    /\ UNCHANGED <<view, lastError, lastResponse, timedOut, outstanding>>
    /\ UNCHANGED <<countdown, scheduled, failures, onlyConnectivity, manual>>
    /\ UNCHANGED <<orchVars, calcVars, sideVars>>

\* the setTimeout callback of the catch branch
RetryTimerFires ==
    /\ pendingRetry # << >>
    /\ pendingRetry' = Tail(pendingRetry)
    /\ retryCount' = retryCount + 1
    /\ StartAnalysis
    /\ UNCHANGED <<countdown, scheduled, failures, onlyConnectivity, manual>>
    /\ UNCHANGED <<orchVars, calcVars, sideVars>>

\* showRetryCountdown(delayMs) with its first updateCountdown()
showRetryCountdown(delayMs) ==
    LET remaining == (delayMs + 999) \div 1000
    IN IF remaining <= 0
       THEN /\ retryCount' = retryCount + 1
            /\ StartAnalysis
            /\ UNCHANGED countdown
       ELSE /\ view' = "countdown"
            /\ lastError' = {}
            /\ lastResponse' = None
            /\ timedOut' = FALSE
            /\ countdown' = [active |-> TRUE, remaining |-> remaining - 1]
            /\ UNCHANGED <<retryCount, outstanding>>

\* a "Try Again" button that is also there during the auto-retry wait
ClickRetryWhileRetrying ==
    /\ view \in {"error", "retrying"}
    /\ parseError(lastError).action = "retry"
    /\ manual < MaxManualRetries
    /\ manual' = manual + 1
    /\ IF parseError(lastError).retryDelay # 0
       THEN showRetryCountdown(parseError(lastError).retryDelay)
       ELSE /\ retryCount' = retryCount + 1
            /\ StartAnalysis
            /\ UNCHANGED countdown
    /\ UNCHANGED <<pendingRetry, scheduled, failures, onlyConnectivity>>
    /\ UNCHANGED <<orchVars, calcVars, sideVars>>

\* click on the enabled "Try Again" button of renderError
ClickRetry ==
    /\ view = "error"
    /\ parseError(lastError).action = "retry"
    /\ manual < MaxManualRetries
    /\ manual' = manual + 1
    /\ IF parseError(lastError).retryDelay # 0
       THEN showRetryCountdown(parseError(lastError).retryDelay)
       ELSE /\ retryCount' = retryCount + 1
            /\ StartAnalysis
            /\ UNCHANGED countdown
    /\ UNCHANGED <<pendingRetry, scheduled, failures, onlyConnectivity>>
    /\ UNCHANGED <<orchVars, calcVars, sideVars>>

\* the setTimeout(updateCountdown, 1000) callback
CountdownTimerFires ==
    /\ countdown.active
    /\ IF countdown.remaining <= 0
       THEN /\ countdown' = [active |-> FALSE, remaining |-> countdown.remaining]
            /\ retryCount' = retryCount + 1
            /\ StartAnalysis
       ELSE /\ countdown' = [countdown EXCEPT !.remaining = @ - 1]
            /\ UNCHANGED <<retryCount, view, lastError, lastResponse, timedOut, outstanding>>
    /\ UNCHANGED <<pendingRetry, scheduled, failures, onlyConnectivity, manual>>
    /\ UNCHANGED <<orchVars, calcVars, sideVars>>

NextClient ==
    \/ InitPage
    \/ AnalysisSucceeds
    \/ \E message \in Messages : AnalysisFails(message)
    \/ \E status \in HttpStatuses, detail \in Details : RequestRejected(status, detail)
    \/ RequestTimesOut
    \/ RetryTimerFires
    \/ ClickRetry
    \/ CountdownTimerFires

SpecClient == Init /\ [][NextClient]_vars

\* the failure messages of the fair runs: no keyword, or one
FairMessages == KeywordSets(1)

\* the analysis request completes, with a result or with an error
RequestSettles ==
    \/ AnalysisSucceeds
    \/ \E message \in FairMessages : AnalysisFails(message)
    \/ \E status \in HttpStatuses, detail \in Details : RequestRejected(status, detail)
    \/ RequestTimesOut

NextClientFair ==
    \/ InitPage
    \/ RequestSettles
    \/ RetryTimerFires
    \/ ClickRetry
    \/ CountdownTimerFires

\* the content script when every request completes and every timer fires
SpecClientFair ==
    /\ Init
    /\ [][NextClientFair]_vars
    /\ WF_vars(RequestSettles)
    /\ WF_vars(RetryTimerFires)
    /\ WF_vars(CountdownTimerFires)

(***************************************************************************)
(* Extension logger: queueLogEntry and flushLogs, one step per await.      *)
(***************************************************************************)
MaxLogEntries == 3

MAX_QUEUE_SIZE == 20

LogLevels == {"info", "warning", "error"}

\* entries of a burst: warnings logged by one piece of synchronous code,
\* two short of a full queue
BurstSize == MAX_QUEUE_SIZE - 2

\* logger calls the behaviour may still make (a bound of the model; a burst
\* does not count)
LogCallsLeft ==
    MaxLogEntries + (IF Len(attempts) >= BurstSize THEN BurstSize ELSE 0) - Len(attempts)

\* the synchronous head of flushLogs(), run on the queue q: it clears the
\* timer and, unless q is empty, takes every entry and awaits getSettings()
flushLogs(q) ==
    /\ flushTimeout' = FALSE
    /\ IF q = << >>
       THEN /\ logQueue' = q
            /\ UNCHANGED flushes
       ELSE /\ logQueue' = << >>
            /\ flushes' = flushes \cup
                   {[entries |-> q, pc |-> "settings", k |-> 0, failed |-> FALSE]}

queueLogEntry(entry) ==
    LET pushed == Append(logQueue, entry) IN
    IF Len(pushed) >= MAX_QUEUE_SIZE
    THEN flushLogs(pushed)
    ELSE /\ logQueue' = pushed
         /\ flushTimeout' = TRUE
         /\ UNCHANGED flushes

\* Logger.info / Logger.warn / Logger.error of a logger with enableRemote
LogCall(level) ==
    /\ LogCallsLeft > 0
    /\ IF level \in {"warning", "error"}
       THEN /\ queueLogEntry(Len(attempts) + 1)
            /\ attempts' = Append(attempts, 0)
       ELSE UNCHANGED <<logQueue, flushTimeout, flushes, attempts>>
    /\ lastCall' = <<[level |-> level, threw |-> FALSE]>>
    /\ UNCHANGED lastFlush
    /\ UNCHANGED <<orchVars, clientVars, calcVars, promptVars, sessionVars, extraVars>>

\* the timer set by queueLogEntry fires
FlushTimerFires ==
    /\ flushTimeout
    /\ flushLogs(logQueue)
    /\ UNCHANGED <<attempts, lastCall, lastFlush>>
    /\ UNCHANGED <<orchVars, clientVars, calcVars, promptVars, sessionVars, extraVars>>

\* getSettings() resolves: the loop over the entries starts
SettingsRead(f) ==
    /\ f \in flushes
    /\ f.pc = "settings"
    /\ flushes' = (flushes \ {f}) \cup {[f EXCEPT !.pc = "sending"]}
    /\ UNCHANGED <<logQueue, flushTimeout, attempts, lastCall, lastFlush>>
    /\ UNCHANGED <<orchVars, clientVars, calcVars, promptVars, sessionVars, extraVars>>

\* getSettings() rejects and nothing catches it
SettingsFailUncaught(f) ==
    /\ f \in flushes
    /\ f.pc = "settings"
    /\ flushes' = flushes \ {f}
    /\ lastFlush' = <<[outcome |-> "rejected", failed |-> TRUE]>>
    /\ UNCHANGED <<logQueue, flushTimeout, attempts, lastCall>>
    /\ UNCHANGED <<orchVars, clientVars, calcVars, promptVars, sessionVars, extraVars>>

\* getSettings() rejects: the outer catch puts the entries back in front
SettingsFail(f) ==
    /\ f \in flushes
    /\ f.pc = "settings"
    /\ logQueue' = f.entries \o logQueue
    /\ flushes' = flushes \ {f}
    /\ lastFlush' = <<[outcome |-> "resolved", failed |-> TRUE]>>
    /\ UNCHANGED <<flushTimeout, attempts, lastCall>>
    /\ UNCHANGED <<orchVars, clientVars, calcVars, promptVars, sessionVars, extraVars>>

\* the fetch of the next entry settles (ok: it resolved); the inner catch
\* swallows a rejection, and after the last entry the promise resolves
Send(f, ok) ==
    /\ f \in flushes
    /\ f.pc = "sending"
    /\ LET entry == f.entries[f.k + 1]
           g == [f EXCEPT !.k = f.k + 1, !.failed = f.failed \/ ~ok]
       IN /\ attempts' = [attempts EXCEPT ![entry] = attempts[entry] + 1]
          /\ IF g.k = Len(g.entries)
             THEN /\ flushes' = flushes \ {f}
                  /\ lastFlush' = <<[outcome |-> "resolved", failed |-> g.failed]>>
             ELSE /\ flushes' = (flushes \ {f}) \cup {g}
                  /\ UNCHANGED lastFlush
    /\ UNCHANGED <<logQueue, flushTimeout, lastCall>>
    /\ UNCHANGED <<orchVars, clientVars, calcVars, promptVars, sessionVars, extraVars>>

SendOk(f) == Send(f, TRUE)

\* an outer catch that also sees the rejected fetch: every entry of the
\* flush goes back to the queue
SendFailPutsBack(f) ==
    /\ f \in flushes
    /\ f.pc = "sending"
    /\ attempts' = [attempts EXCEPT ![f.entries[f.k + 1]] = @ + 1]
    /\ logQueue' = f.entries \o logQueue
    /\ flushes' = flushes \ {f}
    /\ lastFlush' = <<[outcome |-> "resolved", failed |-> TRUE]>>
    /\ UNCHANGED <<flushTimeout, lastCall>>
    /\ UNCHANGED <<orchVars, clientVars, calcVars, promptVars, sessionVars, extraVars>>

SendFail(f) == Send(f, FALSE)

\* BurstSize Logger.warn calls in a row, the first calls of the page: each
\* queueLogEntry pushes its entry, the first one sets the timer, and the
\* queue stays below MAX_QUEUE_SIZE
LogBurst ==
    /\ attempts = << >>
    /\ logQueue' = [k \in 1..BurstSize |-> k]
    /\ flushTimeout' = TRUE
    /\ attempts' = [k \in 1..BurstSize |-> 0]
    /\ lastCall' = <<[level |-> "warning", threw |-> FALSE]>>
    /\ UNCHANGED <<flushes, lastFlush>>
    /\ UNCHANGED <<orchVars, clientVars, calcVars, promptVars, sessionVars, extraVars>>

NextLogger ==
    \/ \E level \in LogLevels : LogCall(level)
    \/ FlushTimerFires
    \/ \E f \in flushes : SettingsRead(f)
    \/ \E f \in flushes : SettingsFail(f)
    \/ \E f \in flushes : SendOk(f)
    \/ \E f \in flushes : SendFail(f)

SpecLogger == Init /\ [][NextLogger]_vars

\* the logger of a page that may start with a burst of warnings
NextLoggerBurst ==
    \/ NextLogger
    \/ LogBurst

SpecLoggerBurst == Init /\ [][NextLoggerBurst]_vars

(***************************************************************************)
(* Extension storage: getSessionId, one step per await.  Time is counted   *)
(* in units of twenty minutes from the start of the behaviour; a           *)
(* sessionStart in storage is a Date.now() value and so never falsy.       *)
(***************************************************************************)
\* Date.now() values per behaviour
MaxClock == 4

\* getSessionId() calls that are remembered
MaxSessionCalls == 2

\* 60 * 60 * 1000 ms
ONE_HOUR == 3

\* the other callers' calls overlap the call that starts
Overlapped(calls, c) ==
    [d \in Callers |->
        IF d # c /\ calls[d].pc # "idle" THEN [calls[d] EXCEPT !.alone = FALSE] ELSE calls[d]]

\* getSessionId() is called: browser.storage.local.get is awaited
CallGetSessionId(c) ==
    /\ sessionCall[c].pc = "idle"
    /\ sessionCall' =
           [Overlapped(sessionCall, c) EXCEPT
               ![c] = [pc |-> "getting",
                       alone |-> \A d \in Callers \ {c} : sessionCall[d].pc = "idle"]]
    /\ UNCHANGED <<storage, clock, created, returned>>
    /\ UNCHANGED <<orchVars, clientVars, calcVars, loggerVars, promptVars, extraVars>>

\* the call of caller c returns sessionId
Return(c, sessionId, dateNow) ==
    returned' =
        LET calls == Append(returned, [caller |-> c, id |-> sessionId, at |-> dateNow,
                                       alone |-> sessionCall[c].alone])
        IN IF Len(calls) > MaxSessionCalls THEN Tail(calls) ELSE calls

\* result.sessionId && result.sessionStart && now - result.sessionStart < ONE_HOUR
ValidSession(result, dateNow) ==
    /\ result # None
    /\ dateNow - result[1].sessionStart < ONE_HOUR

\* a stored session is returned and its sessionStart is moved to now
GetResolvesRefreshing(c) ==
    /\ sessionCall[c].pc = "getting"
    /\ IF ValidSession(storage, clock)
       THEN /\ Return(c, storage[1].sessionId, clock)
            /\ storage' = Some([sessionId |-> storage[1].sessionId, sessionStart |-> clock])
            /\ sessionCall' = [sessionCall EXCEPT ![c] = IdleSessionCall]
            /\ UNCHANGED created
       ELSE /\ created' = Append(created, clock)
            /\ sessionCall' = [sessionCall EXCEPT ![c] =
                   [pc |-> "setting", alone |-> sessionCall[c].alone,
                    sessionId |-> Len(created) + 1, now |-> clock]]
            /\ UNCHANGED <<storage, returned>>
    /\ UNCHANGED clock
    /\ UNCHANGED <<orchVars, clientVars, calcVars, loggerVars, promptVars, extraVars>>

\* storage.local.get resolves: the stored id is returned if it is younger
\* than an hour; otherwise a new id (the next number) is generated and
\* storage.local.set is awaited
GetResolves(c) ==
    /\ sessionCall[c].pc = "getting"
    /\ IF ValidSession(storage, clock)
       THEN /\ Return(c, storage[1].sessionId, clock)
            /\ sessionCall' = [sessionCall EXCEPT ![c] = IdleSessionCall]
            /\ UNCHANGED <<storage, created>>
       ELSE /\ created' = Append(created, clock)
            /\ sessionCall' = [sessionCall EXCEPT ![c] =
                   [pc |-> "setting", alone |-> sessionCall[c].alone,
                    sessionId |-> Len(created) + 1, now |-> clock]]
            /\ UNCHANGED <<storage, returned>>
    /\ UNCHANGED clock
    /\ UNCHANGED <<orchVars, clientVars, calcVars, loggerVars, promptVars, extraVars>>

\* storage.local.set resolves: the new id is stored and returned
SetResolves(c) ==
    /\ sessionCall[c].pc = "setting"
    /\ storage' = Some([sessionId |-> sessionCall[c].sessionId,
                        sessionStart |-> sessionCall[c].now])
    /\ Return(c, sessionCall[c].sessionId, sessionCall[c].now)
    /\ sessionCall' = [sessionCall EXCEPT ![c] = IdleSessionCall]
    /\ UNCHANGED <<clock, created>>
    /\ UNCHANGED <<orchVars, clientVars, calcVars, loggerVars, promptVars, extraVars>>

\* twenty minutes pass
TimePasses ==
    /\ clock < MaxClock
    /\ clock' = clock + 1
    /\ UNCHANGED <<storage, sessionCall, created, returned>>
    /\ UNCHANGED <<orchVars, clientVars, calcVars, loggerVars, promptVars, extraVars>>

NextSession ==
    \/ \E c \in Callers : CallGetSessionId(c)
    \/ \E c \in Callers : GetResolves(c)
    \/ \E c \in Callers : SetResolves(c)
    \/ TimePasses

SpecSession == Init /\ [][NextSession]_vars

(***************************************************************************)
(* Background worker: handleMessage, one step per await.                   *)
(***************************************************************************)
\* the messages of MessageType, an ANALYZE_PRODUCT message without its
\* payload, and the messages the content script sends that are not in
\* MessageType
WorkerMessages ==
    {[type |-> "ANALYZE_PRODUCT", payload |-> TRUE],
     [type |-> "ANALYZE_PRODUCT", payload |-> FALSE],
     [type |-> "GET_PROFILE", payload |-> FALSE],
     [type |-> "TEST_CONNECTION", payload |-> FALSE],
     [type |-> "GET_SETTINGS", payload |-> FALSE],
     [type |-> "OPEN_POPUP", payload |-> FALSE],
     [type |-> "OPEN_QUIZ", payload |-> FALSE]}

HandledTypes == {"ANALYZE_PRODUCT", "GET_PROFILE", "TEST_CONNECTION", "GET_SETTINGS"}

\* what a handler can throw: an Error with its message, or a value that is
\* not an Error
Thrown ==
    {[isError |-> TRUE, message |-> "Failed to fetch"],
     [isError |-> TRUE, message |-> "HTTP 500"],
     [isError |-> FALSE, message |-> "a string"]}

\* reading message.payload.url of a message without payload
PayloadTypeError == [isError |-> TRUE, message |-> "message.payload is undefined"]

SuccessEnvelope(data) == [success |-> TRUE, data |-> data]

FailureEnvelope(error) == [success |-> FALSE, error |-> error]

\* `error instanceof Error ? error.message : "Unknown error"`
ErrorMessage(thrown) == IF thrown.isError THEN thrown.message ELSE "Unknown error"

\* the handleMessage promise of port p settles
Settles(p, how, envelope, thrown) ==
    replies' = [replies EXCEPT ![p] =
                   Append(@, [how |-> how, envelope |-> envelope, thrown |-> thrown])]

\* the catch block of handleMessage
CatchInHandler(p, thrown) ==
    Settles(p, "resolved", Some(FailureEnvelope(ErrorMessage(thrown))), Some(thrown))

\* a handleMessage without try: what is thrown rejects the promise
HandlerThrowsUncaught(p, thrown) ==
    /\ handling[p] # None
    /\ handling' = [handling EXCEPT ![p] = None]
    /\ Settles(p, "rejected", None, Some(thrown))
    /\ UNCHANGED asked
    /\ UNCHANGED uiVars
    /\ UNCHANGED <<orchVars, clientVars, calcVars, loggerVars, promptVars, sessionVars, quizVars>>

\* handleMessage(message) up to its first await
handleMessage(p, message) ==
    /\ handling[p] = None
    /\ asked' = [asked EXCEPT ![p] = Some(message)]
    /\ IF message.type \notin HandledTypes
       THEN /\ replies' = [replies EXCEPT ![p] =
                    <<[how |-> "resolved",
                       envelope |-> Some(FailureEnvelope("Unknown message type")),
                       thrown |-> None]>>]
            /\ UNCHANGED handling
       ELSE IF message.type = "ANALYZE_PRODUCT" /\ ~message.payload
       THEN /\ replies' = [replies EXCEPT ![p] =
                    <<[how |-> "resolved",
                       envelope |-> Some(FailureEnvelope(ErrorMessage(PayloadTypeError))),
                       thrown |-> Some(PayloadTypeError)]>>]
            /\ UNCHANGED handling
       ELSE /\ replies' = [replies EXCEPT ![p] = << >>]
            /\ handling' = [handling EXCEPT ![p] = Some(message)]

\* runtime.onMessage: a message of the popup or of another page comes in
ReceiveMessage(p, message) ==
    /\ handleMessage(p, message)
    /\ UNCHANGED uiVars
    /\ UNCHANGED <<orchVars, clientVars, calcVars, loggerVars, promptVars, sessionVars, quizVars>>

\* the awaited api call (or getSettings) resolves
HandlerResolves(p) ==
    /\ handling[p] # None
    /\ handling' = [handling EXCEPT ![p] = None]
    /\ Settles(p, "resolved", Some(SuccessEnvelope(<<"result of", handling[p][1].type>>)), None)
    /\ UNCHANGED asked
    /\ UNCHANGED uiVars
    /\ UNCHANGED <<orchVars, clientVars, calcVars, loggerVars, promptVars, sessionVars, quizVars>>

\* the awaited api call (or the import, or getSettings) throws
HandlerThrows(p, thrown) ==
    /\ handling[p] # None
    /\ handling' = [handling EXCEPT ![p] = None]
    /\ CatchInHandler(p, thrown)
    /\ UNCHANGED asked
    /\ UNCHANGED uiVars
    /\ UNCHANGED <<orchVars, clientVars, calcVars, loggerVars, promptVars, sessionVars, quizVars>>

NextWorker ==
    \/ \E p \in Ports, message \in WorkerMessages : ReceiveMessage(p, message)
    \/ \E p \in Ports : HandlerResolves(p)
    \/ \E p \in Ports, thrown \in Thrown : HandlerThrows(p, thrown)

SpecWorker == Init /\ [][NextWorker]_vars

(***************************************************************************)
(* Content script: the "Open Settings" button of renderError.  No error    *)
(* of parseError has the action "quiz", so renderError never renders its   *)
(* "Take Style Quiz" button.                                               *)
(***************************************************************************)
\* click on "Open Settings": browser.runtime.sendMessage({type: "OPEN_POPUP"})
\* reaches the worker, whose handleMessage answers
ClickOpenSettings(p) ==
    /\ view = "error"
    /\ parseError(lastError).action = "settings"
    /\ click.pc # "sent"
    /\ handleMessage(p, [type |-> "OPEN_POPUP", payload |-> FALSE])
    /\ click' = [pc |-> "sent", delivered |-> TRUE, reply |-> replies'[p][1]]
    /\ UNCHANGED <<orchVars, clientVars, calcVars, loggerVars, promptVars, sessionVars, quizVars>>

\* click on "Open Settings" when the message cannot be delivered (the
\* extension was reloaded, its context is gone): sendMessage rejects
ClickOpenSettingsUndelivered ==
    /\ view = "error"
    /\ parseError(lastError).action = "settings"
    /\ click.pc # "sent"
    /\ click' = [pc |-> "sent", delivered |-> FALSE,
                 reply |-> [how |-> "rejected", envelope |-> None, thrown |-> None]]
    /\ UNCHANGED workerVars
    /\ UNCHANGED <<orchVars, clientVars, calcVars, loggerVars, promptVars, sessionVars, quizVars>>

\* the sendMessage promise settles: `.catch(() => alert(hint))` runs for a
\* rejection only
SendMessageSettles ==
    /\ click.pc = "sent"
    /\ click' = [pc |-> "done", delivered |-> click.delivered, reply |-> click.reply,
                 ended |-> IF click.reply.how = "rejected" THEN "hint" ELSE "nothing"]
    /\ UNCHANGED workerVars
    /\ UNCHANGED <<orchVars, clientVars, calcVars, loggerVars, promptVars, sessionVars, quizVars>>

NextErrorButtons ==
    \/ NextClientFair
    \/ \E p \in Ports : ClickOpenSettings(p)
    \/ ClickOpenSettingsUndelivered
    \/ SendMessageSettles

SpecErrorButtons == Init /\ [][NextErrorButtons]_vars

(***************************************************************************)
(* Quiz page: handleNext, handleBack and saveProfile, one step per await.  *)
(* The page's HTML and CSS are not part of the source: whether the loading *)
(* overlay keeps a click from the buttons is left open, so a click during  *)
(* a save is possible (by keyboard on the focused button in any case).     *)
(***************************************************************************)
\* clicks on "Finish" that start a save, per behaviour
MaxFinishClicks == 2

totalQuestions == 7

\* questions that need no selection: the slider (3), the avoidances (7)
AlwaysValid == {3, 7}

\* validateCurrentQuestion()
validateCurrentQuestion ==
    currentQuestion \in AlwaysValid \/ currentQuestion \in checked
        \/ currentQuestion > totalQuestions

\* collectCurrentAnswers(): state.answers of the current question is what
\* its inputs hold
collectCurrentAnswers ==
    IF currentQuestion \in checked \/ currentQuestion \in AlwaysValid
    THEN answers \cup {currentQuestion}
    ELSE answers \ {currentQuestion}

\* messages of the error toast
SelectionMessage == "Please make at least one selection to continue."

SaveErrors == {"Failed to fetch", "HTTP 500"}

\* the user checks an option of the question that is shown
SelectOption ==
    /\ ~closed
    /\ currentQuestion <= totalQuestions
    /\ currentQuestion \notin AlwaysValid
    /\ currentQuestion \notin checked
    /\ checked' = checked \cup {currentQuestion}
    /\ UNCHANGED <<currentQuestion, answers, saving, toast, closed, finishes, okSaves, failedSaves>>
    /\ UNCHANGED <<orchVars, clientVars, calcVars, loggerVars, promptVars, sessionVars,
                   workerVars, uiVars>>

\* click on btn-next ("Next", "Finish" or "Close"): handleNext up to its await
handleNext ==
    /\ ~closed
    /\ IF currentQuestion > totalQuestions
       THEN /\ closed' = TRUE
            /\ UNCHANGED <<currentQuestion, answers, saving, toast, finishes>>
       ELSE IF ~validateCurrentQuestion
       THEN /\ toast' = Some(SelectionMessage)
            /\ UNCHANGED <<currentQuestion, answers, saving, closed, finishes>>
       ELSE IF currentQuestion = totalQuestions
       THEN /\ finishes < MaxFinishClicks
            /\ answers' = collectCurrentAnswers
            /\ saving' = saving + 1
            /\ finishes' = finishes + 1
            /\ UNCHANGED <<currentQuestion, toast, closed>>
       ELSE /\ answers' = collectCurrentAnswers
            /\ currentQuestion' = currentQuestion + 1
            /\ UNCHANGED <<saving, toast, closed, finishes>>
    /\ UNCHANGED <<checked, okSaves, failedSaves>>
    /\ UNCHANGED <<orchVars, clientVars, calcVars, loggerVars, promptVars, sessionVars,
                   workerVars, uiVars>>

\* click on btn-back, which showQuestion hides on question 1 and on the
\* completion screen
handleBack ==
    /\ ~closed
    /\ currentQuestion > 1
    /\ currentQuestion <= totalQuestions
    /\ answers' = collectCurrentAnswers
    /\ currentQuestion' = currentQuestion - 1
    /\ UNCHANGED <<checked, saving, toast, closed, finishes, okSaves, failedSaves>>
    /\ UNCHANGED <<orchVars, clientVars, calcVars, loggerVars, promptVars, sessionVars,
                   workerVars, uiVars>>

\* `await saveProfile(profile)` resolves: the try block of handleNext goes on
SaveSucceeds ==
    /\ ~closed
    /\ saving > 0
    /\ saving' = saving - 1
    /\ currentQuestion' = currentQuestion + 1
    /\ okSaves' = okSaves + 1
    /\ UNCHANGED <<checked, answers, toast, closed, finishes, failedSaves>>
    /\ UNCHANGED <<orchVars, clientVars, calcVars, loggerVars, promptVars, sessionVars,
                   workerVars, uiVars>>

\* saveProfile throws (getSettings or fetch failed, or the response is not
\* ok): the catch block shows the message
SaveFails(message) ==
    /\ ~closed
    /\ saving > 0
    /\ saving' = saving - 1
    /\ toast' = Some(message)
    /\ failedSaves' = failedSaves + 1
    /\ UNCHANGED <<currentQuestion, checked, answers, closed, finishes, okSaves>>
    /\ UNCHANGED <<orchVars, clientVars, calcVars, loggerVars, promptVars, sessionVars,
                   workerVars, uiVars>>

\* the toast goes away: its 5 s timer, or a click on its close button
ToastHides ==
    /\ ~closed
    /\ toast # None
    /\ toast' = None
    /\ UNCHANGED <<currentQuestion, checked, answers, saving, closed, finishes, okSaves,
                   failedSaves>>
    /\ UNCHANGED <<orchVars, clientVars, calcVars, loggerVars, promptVars, sessionVars,
                   workerVars, uiVars>>

NextQuiz ==
    \/ SelectOption
    \/ handleNext
    \/ handleBack
    \/ SaveSucceeds
    \/ \E message \in SaveErrors : SaveFails(message)
    \/ ToastHides

SpecQuiz == Init /\ [][NextQuiz]_vars

(***************************************************************************)
(* Properties of the orchestrator and its cache.                           *)
(***************************************************************************)
\* the events of kind `kind` in the history of slot i
EventsOf(i, kind) == {k \in 1..Len(events[i]) : events[i][k][1] = kind}

\* a call that has returned
Returned(i) == inv[i].pc = "done"

\* the cache keys of the model: every item, every mode, and every version a
\* lookup can be asked for (None is the no-profile sentinel)
LookupVersions ==
    {None, Some(get_profile_version(ProfileA)), Some(get_profile_version(ProfileB))}

\* row k was stored under the key (url, version, mode)
RowHasKey(k, url, version, mode) ==
    /\ analyses[k].product_id \in 1..Len(products)
    /\ products[analyses[k].product_id] = url
    /\ analyses[k].profile_version = OrEmpty(version)
    /\ analyses[k].analysis_type = mode

\* C1: a call whose cache lookup found a record returns without any provider
\* call: its history holds the lookup and nothing else, and it has returned.
C1_CacheHitMakesNoGatewayCall ==
    \A i \in Slots :
        inv[i].cached # None =>
            /\ EventsOf(i, "gateway") = {}
            /\ events[i] = << <<"lookup">> >>
            /\ Returned(i)

\* C1 witness: a hit after an earlier call went to the provider
C1_Witness ==
    \E i \in Slots : Returned(i) /\ inv[i].cached # None /\ gatewayCalls >= 1

\* C2: every response produced from a cache hit carries cached = true and
\* cost_usd = 0.
C2_CacheHitCostsZero ==
    \A i \in Slots :
        (Returned(i) /\ inv[i].cached # None) =>
            /\ inv[i].resp.cached = TRUE
            /\ inv[i].resp.cost_usd = 0

\* C3: a call that missed the cache and returned a result has stored exactly
\* one analyses row (under its key, holding the returned analysis), has written
\* exactly one cost_log row (for the request's session, with the returned
\* cost), and returns cached = false.
C3_MissThenSuccessWritesOnce ==
    \A i \in Slots :
        (Returned(i) /\ inv[i].cached = None /\ inv[i].resp.status = "ok") =>
            /\ Cardinality(EventsOf(i, "gateway_ok")) = 1
            /\ Cardinality(EventsOf(i, "store")) = 1
            /\ Cardinality(EventsOf(i, "log")) = 1
            /\ \A k \in EventsOf(i, "store") :
                  LET id == events[i][k][2]
                  IN /\ id \in 1..Len(analyses)
                     /\ RowHasKey(id, inv[i].req.url, inv[i].resp.profile_version,
                                  inv[i].req.mode)
                     /\ analyses[id].analysis_data = json_dumps(inv[i].resp.analysis_data)
            /\ \A k \in EventsOf(i, "log") :
                  LET id == events[i][k][2]
                  IN /\ id \in 1..Len(cost_log)
                     /\ cost_log[id].session_id = inv[i].req.session_id
                     /\ cost_log[id].cost_usd = inv[i].resp.cost_usd
            /\ inv[i].resp.cached = FALSE

\* C3 witness: a miss that returned a result
C3_Witness ==
    \E i \in Slots :
        /\ Returned(i) /\ inv[i].cached = None /\ inv[i].resp.status = "ok"
        /\ Len(analyses) >= 1 /\ Len(cost_log) >= 1

\* C4: a call whose provider call failed has written no analyses row and no
\* cost_log row, and the step in which the provider call fails changes no table.
C4_FailureWritesNothing ==
    /\ [](\A i \in Slots :
            (Returned(i) /\ inv[i].resp.status = "error") =>
                /\ EventsOf(i, "store") = {}
                /\ EventsOf(i, "log") = {}
                /\ EventsOf(i, "gateway_error") # {})
    /\ [][\A i \in Slots :
            (inv[i].pc = "in_flight" /\ inv'[i].pc = "done") =>
                /\ analyses' = analyses
                /\ cost_log' = cost_log
                /\ products' = products]_vars

\* C4 witness: a failed call, after which the same request would miss the
\* cache again
C4_Witness ==
    \E i \in Slots :
        /\ Returned(i) /\ inv[i].resp.status = "error"
        /\ get_cached_analysis(inv[i].req.url, inv[i].profile_version, inv[i].req.mode)
               = {None}

\* C8: for every key (item, version, mode), whatever lookup returns comes
\* from a stored row that matches the key in all three fields; so lookup
\* returns none when no row matches all three.
C8_LookupMatchesAllThreeFields ==
    \A url \in Urls, version \in LookupVersions, mode \in Modes :
        \A r \in get_cached_analysis(url, version, mode) :
            r # None =>
                \E k \in 1..Len(analyses) :
                    /\ RowHasKey(k, url, version, mode)
                    /\ CachedDict(analyses[k]) = r[1]

\* C8 witness: a stored row, and three keys that differ from the row's key in
\* one field each and all miss
C8_Witness ==
    \E k \in 1..Len(analyses) :
        \E url \in Urls, version \in LookupVersions, mode \in Modes :
            /\ RowHasKey(k, url, version, mode)
            /\ \E m2 \in Modes \ {mode} : get_cached_analysis(url, version, m2) = {None}
            /\ \E v2 \in LookupVersions \ {version} :
                  get_cached_analysis(url, v2, mode) = {None}
            /\ \E u2 \in Urls \ {url} :
                  /\ get_product_by_url(u2) # None
                  /\ get_cached_analysis(u2, version, mode) = {None}

\* C9: when several rows share a key, lookup returns the row created last
\* (the one with the highest id), whatever the creation timestamps.
C9_LookupReturnsLastCreated ==
    \A url \in Urls, version \in LookupVersions, mode \in Modes :
        \A r \in get_cached_analysis(url, version, mode) :
            r # None =>
                LET rows == {k \in 1..Len(analyses) : RowHasKey(k, url, version, mode)}
                    last == CHOOSE k \in rows : \A j \in rows : j <= k
                IN r[1] = CachedDict(analyses[last])

\* C10: no basic-mode row is keyed by a profile hash.
C10_BasicUsesSentinelVersion ==
    \A k \in 1..Len(analyses) :
        analyses[k].analysis_type = "basic" => analyses[k].profile_version = EmptyString

\* C11: within one call the cache lookup comes strictly before every provider
\* call and the store comes strictly after a provider success: in every
\* history each provider call has an earlier lookup and each store has an
\* earlier provider success; a step that issues a provider call is made by a
\* call at its cache check, and a step that adds an analyses row is made by a
\* call that holds a provider result.
C11_LookupBeforeGatewayBeforeStore ==
    /\ [](\A i \in Slots :
            /\ \A g \in EventsOf(i, "gateway") : \E l \in EventsOf(i, "lookup") : l < g
            /\ \A s \in EventsOf(i, "store") : \E g \in EventsOf(i, "gateway_ok") : g < s
            /\ \A s \in EventsOf(i, "store") : \E l \in EventsOf(i, "lookup") : l < s)
    /\ [][/\ gatewayCalls' # gatewayCalls =>
                \E i \in Slots : inv[i].pc = "cache_check" /\ inv'[i].pc = "in_flight"
          /\ analyses' # analyses =>
                \E i \in Slots : inv[i].pc = "store" /\ EventsOf(i, "gateway_ok") # {}]_vars

\* C11 witness: a call went through lookup, provider call, provider success,
\* store and log, in this order, and returned
C11_Witness ==
    \E i \in Slots :
        /\ Returned(i)
        /\ Len(events[i]) = 5
        /\ events[i][1] = <<"lookup">>
        /\ events[i][2] = <<"gateway">>
        /\ events[i][3] = <<"gateway_ok">>
        /\ events[i][4][1] = "store"
        /\ events[i][5][1] = "log"

\* same item, same profile, same mode
SameKey(r1, r2) ==
    r1.url = r2.url /\ r1.user_profile = r2.user_profile /\ r1.mode = r2.mode

\* C12: a call that went to the provider and succeeded, followed (without
\* overlap) by a call with the same item, profile and mode: the first
\* returned cached = false, the second returns cached = true, and the
\* second's analysis_data is the first's.
C12_SecondCallHitsWithSameResult ==
    \A i \in Slots :
        (/\ Returned(i)
         /\ prev[i] # None
         /\ prev[i][1].cached = None
         /\ prev[i][1].resp.status = "ok"
         /\ SameKey(prev[i][1].req, inv[i].req)) =>
            /\ prev[i][1].resp.cached = FALSE
            /\ inv[i].resp.status = "ok"
            /\ inv[i].resp.cached = TRUE
            /\ inv[i].resp.analysis_data = prev[i][1].resp.analysis_data

\* C12 witness: the second of two such calls has returned
C12_Witness ==
    \E i \in Slots :
        /\ Returned(i)
        /\ prev[i] # None
        /\ prev[i][1].cached = None
        /\ prev[i][1].resp.status = "ok"
        /\ SameKey(prev[i][1].req, inv[i].req)
        /\ inv[i].req.user_profile # None
        /\ inv[i].req.mode = "full"

C23_NoSingleFlightGuard ==
    /\ [](\A i \in Slots :
            (inv[i].pc \notin {"idle", "cache_check"} /\ inv[i].cached = None) =>
                /\ Cardinality(EventsOf(i, "gateway")) = 1
                /\ \A j \in Slots \ {i} : inv[j].call_no # inv[i].call_no)
    /\ [][\A i \in Slots :
            (/\ inv[i].pc = "cache_check"
             /\ inv'[i].pc # "cache_check"
             /\ None \in get_cached_analysis(inv[i].req.url, inv[i].profile_version,
                                             inv[i].req.mode)) =>
                /\ inv'[i].pc = "in_flight"
                /\ gatewayCalls' = gatewayCalls + 1]_vars

\* C23 witness: two overlapping calls with the same key have both missed,
\* both been to the provider and both stored a row: two provider calls and
\* two rows for one key
C23_Witness ==
    /\ \A i \in Slots :
          /\ Returned(i) /\ inv[i].cached = None /\ inv[i].resp.status = "ok"
          /\ EventsOf(i, "gateway_ok") # {} /\ EventsOf(i, "store") # {}
    /\ SameKey(inv["r1"].req, inv["r2"].req)
    /\ gatewayCalls = 2
    /\ Len(analyses) = 2
    /\ RowHasKey(1, inv["r1"].req.url, inv["r1"].profile_version, inv["r1"].req.mode)
    /\ RowHasKey(2, inv["r1"].req.url, inv["r1"].profile_version, inv["r1"].req.mode)
    /\ cost_log[1].cost_usd > 0 /\ cost_log[2].cost_usd > 0

\* C24: a call whose provider call succeeded returns the result, whether or
\* not the store succeeded: its response is never an error.
C24_StoreFailureDoesNotFailResponse ==
    \A i \in Slots :
        (Returned(i) /\ EventsOf(i, "gateway_ok") # {}) =>
            /\ inv[i].resp.status = "ok"
            /\ inv[i].resp.analysis_data = inv[i].result.analysis

\* C24 witness: the provider call succeeded, the store failed, and the call
\* has returned
C24_Witness ==
    \E i \in Slots :
        /\ Returned(i)
        /\ EventsOf(i, "gateway_ok") # {}
        /\ EventsOf(i, "store_error") # {}
        /\ inv[i].resp.error = "CacheError"

\* C25: a call issues at most one provider call; a provider call is issued
\* only by a call that has issued none, at its cache check; a call whose
\* provider call failed has returned the failure; so there are never more
\* provider calls than requests.
C25_AtMostOneGatewayCallPerInvocation ==
    /\ [](/\ \A i \in Slots :
               /\ Cardinality(EventsOf(i, "gateway")) <= 1
               /\ EventsOf(i, "gateway_error") # {} =>
                      Returned(i) /\ inv[i].resp.status = "error"
          /\ gatewayCalls <= started)
    /\ [][gatewayCalls' # gatewayCalls =>
            /\ gatewayCalls' = gatewayCalls + 1
            /\ \E i \in Slots : inv[i].pc = "cache_check" /\ EventsOf(i, "gateway") = {}]_vars

\* C25 witness: a call returned the failure of its one provider call, and a
\* second provider call was made for a second request
C25_Witness ==
    \E i \in Slots :
        /\ Returned(i)
        /\ inv[i].resp.status = "error"
        /\ Cardinality(EventsOf(i, "gateway")) = 1
        /\ started = 2
        /\ gatewayCalls = 2

\* C26: every call that has returned (from a hit, from a miss and a result,
\* or with a failure) has written exactly one cost_log row, for its session;
\* the row of a hit records cost 0.
C26_OneCostLogEntryPerCall ==
    \A i \in Slots :
        Returned(i) =>
            /\ Cardinality(EventsOf(i, "log")) = 1
            /\ \A k \in EventsOf(i, "log") :
                  /\ cost_log[events[i][k][2]].session_id = inv[i].req.session_id
                  /\ inv[i].cached # None => cost_log[events[i][k][2]].cost_usd = 0

\* C26 witness: a call served from the cache has returned and the cost log
\* holds one row, the one of the call that went to the provider
C26_Witness ==
    \E i \in Slots :
        /\ Returned(i)
        /\ inv[i].cached # None
        /\ EventsOf(i, "log") = {}
        /\ Len(cost_log) = 1

FirstDelays(n) == SubSeq(RETRY_DELAYS, 1, n)

\* C5: from retry counter 0 and without user action, k <= 3 consecutive
\* Connectivity failures lead to exactly k auto-retries, set at the delays
\* 2s, 5s, 10s in that order, and a success afterwards leaves the counter at 0.
C5_ConnectivityFailuresAreRetriedOnSchedule ==
    (manual = 0 /\ onlyConnectivity /\ failures <= MAX_RETRIES) =>
        /\ scheduled = FirstDelays(failures)
        /\ (view = "analysis" => retryCount = 0)

\* C6: at most 3 auto-retries are set in a run; an error on display comes
\* with no timer pending and no request in flight; and an attempt that fails
\* after 3 auto-retries sets no timer and puts the error on display, whatever
\* its message.
C6_AtMostThreeAutoRetries ==
    /\ [](/\ Len(scheduled) <= MAX_RETRIES
          /\ Len(pendingRetry) <= 1
          /\ (view = "error" =>
                 pendingRetry = << >> /\ ~countdown.active /\ outstanding = 0))
    /\ [][(Len(scheduled) >= MAX_RETRIES /\ failures' = failures + 1) =>
            /\ view' = "error"
            /\ pendingRetry' = << >>
            /\ scheduled' = scheduled
            /\ outstanding' = 0]_vars

\* C6 witness: a failure that shouldAutoRetry accepts is on display after three
\* auto-retries, without any user action
C6_Witness ==
    /\ Len(scheduled) = MAX_RETRIES
    /\ manual = 0
    /\ view = "error"
    /\ shouldAutoRetry(lastError)

\* C7: a failure classified AuthRequired, Extraction or Validation never sets
\* an auto-retry timer, whatever other keywords its message contains.
C7_NonRetryableClassesAreNotAutoRetried ==
    view = "retrying" => Classify(lastError) \notin {"AuthRequired", "Extraction", "Validation"}

\* the failure being handled came as an error response with this status
RejectedWith(statuses) == lastResponse # None /\ lastResponse[1].status \in statuses

\* the failure being handled is a rate-limit failure: parseError calls it
\* "Rate Limited", or the backend answered 429
RateLimitedFailure == Classify(lastError) = "RateLimited" \/ RejectedWith({429})

\* the failure being handled is an upstream failure: parseError calls it
\* "Analysis Service Error", or the backend answered with a 5xx status
UpstreamFailure == Classify(lastError) = "UpstreamService" \/ RejectedWith({500, 503})

\* C17: a rate-limit failure is put on display, waiting for the user, only
\* when the auto-retry budget is used up.
C17_RateLimitedIsAutoRetried ==
    (view = "error" /\ RateLimitedFailure) => retryCount >= MAX_RETRIES

\* C17 witness: the first attempt fails with a message parseError calls
\* "Rate Limited", and the error is on display with retry counter 0
C17_Witness ==
    /\ view = "error"
    /\ Classify(lastError) = "RateLimited"
    /\ retryCount = 0
    /\ manual = 0
    /\ pendingRetry = << >>

\* C18: a countdown starts at the retry_after seconds the failure came with,
\* and at the fixed default when it came with none; and a failure that came
\* with retry_after is not retried without that countdown.
C18_CountdownUsesServerRetryAfter ==
    [][/\ (countdown'.active /\ ~countdown.active) =>
              countdown'.remaining + 1 =
                  IF lastResponse # None /\ lastResponse[1].retry_after # None
                  THEN lastResponse[1].retry_after[1]
                  ELSE RateLimitRetryDelay \div 1000
       /\ (lastResponse # None /\ lastResponse[1].retry_after # None) => view' # "loading"]_vars

\* C18 witness: the failure on display came as a 429 response with
\* retry_after
C18_Witness ==
    /\ view = "error"
    /\ RejectedWith({429})
    /\ lastResponse[1].retry_after = Some(ServerRetryAfter)

\* C19: the retry counter is 0 after a success and otherwise the number of
\* auto-retry attempts made (timers set and fired); clicks on "Try Again" do
\* not count.
C19_RetryCounterCountsAutoRetries ==
    retryCount = IF view = "analysis" THEN 0 ELSE Len(scheduled) - Len(pendingRetry)

\* C19 witness: one click on "Try Again" and no auto-retry so far
C19_Witness ==
    /\ manual = 1
    /\ scheduled = << >>
    /\ view = "loading"
    /\ retryCount = 1

\* C20: an upstream failure is put on display only when the auto-retry budget
\* is used up; before that it waits for a timer set at the delay of the
\* schedule.
C20_UpstreamServiceIsAutoRetried ==
    /\ (view = "error" /\ UpstreamFailure) => retryCount >= MAX_RETRIES
    /\ (view = "retrying" /\ UpstreamFailure) => pendingRetry = <<RetryDelay(retryCount)>>

\* C20 witness: the first attempt got a 500 response of the error middleware
\* (detail is an object), and the error is on display with retry counter 0
C20_Witness ==
    /\ view = "error"
    /\ RejectedWith({500})
    /\ lastError = ObjectObject
    /\ retryCount = 0
    /\ manual = 0

\* C21: a failure that is the client's own timeout is classified
\* Connectivity, is put on display only when the auto-retry budget is used
\* up, and before that waits for a timer set at the delay of the schedule.
C21_TimeoutIsRetriedAsConnectivity ==
    timedOut =>
        /\ Classify(lastError) = "Connectivity"
        /\ view = "error" => retryCount >= MAX_RETRIES
        /\ view = "retrying" => pendingRetry = <<RetryDelay(retryCount)>>

\* C21 witness: the first attempt timed out and the error is on display with
\* retry counter 0
C21_Witness ==
    /\ timedOut
    /\ view = "error"
    /\ retryCount = 0
    /\ manual = 0
    /\ parseError(lastError).title = "Analysis Failed"

\* the activities of the controller that are in progress
Activities ==
    outstanding + Len(pendingRetry) + (IF countdown.active THEN 1 ELSE 0)

\* C33: at most one analysis attempt is outstanding at any time: a request
\* in flight, a pending auto-retry timer and a running countdown exclude each
\* other, and while one of them is in progress the box shows no error, so no
\* retry button can be clicked.
C33_AtMostOneAttemptInProgress ==
    /\ Activities <= 1
    /\ outstanding > 0 <=> view = "loading"
    /\ pendingRetry # << >> <=> view = "retrying"
    /\ countdown.active <=> view = "countdown"

\* a click on "Try Again" has started the countdown, and nothing else runs
C33_Witness ==
    /\ countdown.active
    /\ manual > 0
    /\ outstanding = 0
    /\ pendingRetry = << >>
    /\ failures > 1

\* the buttons renderError gives the user: the enabled ones
EnabledActions(error) ==
    IF parseError(error).action \in {"retry", "settings", "quiz"}
    THEN {parseError(error).action}
    ELSE {}

\* C34: every error the controller shows comes with an enabled action
\* (retry, open settings, or take the quiz) that can lead out of it.
C34_EveryErrorOffersAnAction ==
    view = "error" => EnabledActions(lastError) # {}

\* a "Backend Offline" error is shown: its only button is a disabled Retry
C34_Witness ==
    /\ view = "error"
    /\ parseError(lastError).title = "Backend Offline"
    /\ EnabledActions(lastError) = {}
    /\ outstanding = 0
    /\ pendingRetry = << >>
    /\ ~countdown.active

\* C35: a click on "Open Settings" whose OPEN_POPUP message the worker does
\* not handle ends with the fallback (the settings hint); no click ends with
\* neither the popup nor the hint.
C35_UnhandledClickRunsFallback ==
    click.pc = "done" => click.ended \in {"popup", "hint"}

\* the worker has answered OPEN_POPUP with "Unknown message type", and the
\* click has ended with nothing
C35_Witness ==
    /\ click.pc = "done"
    /\ click.delivered
    /\ click.reply.envelope = Some(FailureEnvelope("Unknown message type"))
    /\ click.ended = "nothing"
    /\ view = "error"

\* C32: when every request completes and every timer fires, a controller
\* that is loading or waiting for an auto-retry eventually shows the
\* analysis or an error, whatever failures occur.
C32_LoadingEndsInSuccessOrError ==
    (view \in {"loading", "retrying"}) ~> (view \in {"analysis", "error"})

\* every auto-retry was used up and the error is shown
C32_Witness ==
    /\ view = "error"
    /\ retryCount = MAX_RETRIES
    /\ Len(scheduled) = MAX_RETRIES

(***************************************************************************)
(* Properties of the extension logger.                                     *)
(***************************************************************************)
\* C28: a failure of the log channel (getSettings rejects, or the fetch of an
\* entry rejects) never reaches the caller of the logger: every
\* Logger.info/warn/error call returns normally, and every flushLogs()
\* promise that settles resolves, also when the flush met such a failure.
C28_LogChannelFailureNeverPropagates ==
    /\ \A k \in 1..Len(lastCall) : ~lastCall[k].threw
    /\ \A k \in 1..Len(lastFlush) : lastFlush[k].outcome = "resolved"

\* a flush whose getSettings or fetch failed has settled, and a logger call
\* has returned since entries were first queued
C28_Witness ==
    /\ lastFlush = <<[outcome |-> "resolved", failed |-> TRUE]>>
    /\ lastCall = <<[level |-> "error", threw |-> FALSE]>>
    /\ Len(attempts) >= 2

\* the entries a flush holds and has not tried to send yet
Unsent(f) == {f.entries[k] : k \in (f.k + 1)..Len(f.entries)}

\* the places an entry is in: the queue, a flush that has not tried to send
\* it yet, or the backend (a fetch was issued for it)
Places(entry) ==
    Cardinality({k \in 1..Len(logQueue) : logQueue[k] = entry})
    + Cardinality({f \in flushes : entry \in Unsent(f)})
    + attempts[entry]

\* C36: no entry is sent more than once: at any time an entry is either in
\* the queue, or held by one flush that has not tried to send it, or a single
\* fetch was issued for it; and a flush that ends without having issued a
\* fetch (its getSettings failed) puts its entries back in front of the
\* queue, in their order.
C36_EachEntrySentAtMostOnce ==
    /\ [](\A entry \in 1..Len(attempts) : attempts[entry] <= 1 /\ Places(entry) = 1)
    /\ [][\A f \in flushes :
             (f.pc = "settings" /\ attempts' = attempts
                 /\ \A g \in flushes' : g.entries # f.entries)
             => logQueue' = f.entries \o logQueue]_vars

\* a flush started by a full queue is sending its entries, after an earlier
\* flush has failed
C36_Witness ==
    /\ lastFlush = <<[outcome |-> "resolved", failed |-> TRUE]>>
    /\ \E f \in flushes :
           /\ Len(f.entries) >= MAX_QUEUE_SIZE
           /\ f.pc = "sending"
           /\ f.k >= 1

\* C37: the log queue never holds more than MAX_QUEUE_SIZE entries (every
\* state is one in which queueLogEntry has returned).
C37_QueueNeverAboveLimit ==
    Len(logQueue) <= MAX_QUEUE_SIZE

\* a flush that was started by the full queue has failed and put its
\* entries back in front of an entry that was queued in the meantime
C37_Witness ==
    /\ Len(logQueue) > MAX_QUEUE_SIZE
    /\ flushes = {}
    /\ lastFlush = <<[outcome |-> "resolved", failed |-> TRUE]>>
    /\ lastCall # None

\* C38: whenever the queue is not empty and no flush is running, a flush
\* timer is pending, so every queued entry is taken by a flush without a
\* further logger call.
C38_QueuedEntriesHaveATimer ==
    (logQueue # << >> /\ flushes = {}) => flushTimeout

\* a flush has failed and put its entries back: they wait in the queue with
\* no timer and no flush
C38_Witness ==
    /\ logQueue # << >>
    /\ flushes = {}
    /\ ~flushTimeout
    /\ lastFlush = <<[outcome |-> "resolved", failed |-> TRUE]>>
    /\ \A k \in 1..Len(logQueue) : attempts[logQueue[k]] = 0

(***************************************************************************)
(* Properties of the provider's request.                                   *)
(***************************************************************************)
\* the segments of a request in the order the backend reads them: the system
\* blocks, then the content of the messages
Segments(request) ==
    request.system \o [k \in 1..Len(request.messages) |-> request.messages[k]]

SegmentText(seg) == IF "text" \in DOMAIN seg THEN seg.text ELSE seg.content

MarkedCacheable(seg) ==
    /\ "cache_control" \in DOMAIN seg
    /\ seg.cache_control = Some("ephemeral")

\* C29: in every request the provider builds, the segments are the fixed
\* instructions, the profile if a (non-empty) profile was given, the schema
\* description and the item, in this order; the item is last and not marked
\* cacheable, and at most 4 segments are marked cacheable.
C29_SegmentsInStabilityOrder ==
    \A c \in 1..Len(lastPrompt) :
        LET call == lastPrompt[c]
            segs == Segments(call.request)
            item == segs[Len(segs)]
            profiled == call.method = "analyze_product" /\ Truthy(call.user_profile)
        IN /\ Len(segs) = IF profiled THEN 4 ELSE 3
           /\ SegmentText(segs[1]) = SystemPrompt
           /\ profiled =>
                  SegmentText(segs[2]) = <<"USER PROFILE:", json_dumps(call.user_profile[1])>>
           /\ SegmentText(segs[Len(segs) - 1]) = AnalysisSchema
           /\ SegmentText(item)[2] = json_dumps(call.product_data)
           /\ ~MarkedCacheable(item)
           /\ Cardinality({k \in 1..Len(segs) : MarkedCacheable(segs[k])}) <= 4

\* a request with a profile and caching on: the profile and the schema are
\* marked cacheable
C29_Witness ==
    /\ lastPrompt # None
    /\ Len(lastPrompt[1].request.system) = 3
    /\ MarkedCacheable(lastPrompt[1].request.system[2])
    /\ MarkedCacheable(lastPrompt[1].request.system[3])

(***************************************************************************)
(* Properties of the session id provider.                                  *)
(***************************************************************************)
\* two remembered calls that follow each other and overlapped no other call
Successive(k) ==
    /\ k \in 1..(Len(returned) - 1)
    /\ returned[k].alone
    /\ returned[k + 1].alone

C31_OneEnvelopePerMessage ==
    \A p \in Ports :
        /\ Len(replies[p]) = IF asked[p] # None /\ handling[p] = None THEN 1 ELSE 0
        /\ \A k \in 1..Len(replies[p]) :
               LET reply == replies[p][k]
                   message == asked[p][1]
               IN /\ reply.how = "resolved"
                  /\ reply.envelope # None
                  /\ \/ /\ reply.envelope[1].success
                        /\ DOMAIN reply.envelope[1] = {"success", "data"}
                     \/ /\ ~reply.envelope[1].success
                        /\ DOMAIN reply.envelope[1] = {"success", "error"}
                  /\ reply.thrown # None =>
                         reply.envelope[1] = FailureEnvelope(ErrorMessage(reply.thrown[1]))
                  /\ message.type \notin HandledTypes =>
                         reply.envelope[1] = FailureEnvelope("Unknown message type")
                  /\ (message.type \in HandledTypes /\ reply.thrown = None) =>
                         reply.envelope[1].success

\* a handler has thrown an Error and the message was answered with the
\* failure envelope that carries its message
C31_Witness ==
    \E p \in Ports :
        /\ asked[p] = Some([type |-> "GET_SETTINGS", payload |-> FALSE])
        /\ handling[p] = None
        /\ replies[p] = <<[how |-> "resolved", envelope |-> Some(FailureEnvelope("HTTP 500")),
                           thrown |-> Some([isError |-> TRUE, message |-> "HTTP 500"])]>>

\* at the time of the call r the id of the call q was less than an hour old
ValidAt(q, r) == r.at - created[q.id] < ONE_HOUR

\* C39: calls made while a session is valid return the same id, also calls
\* that overlap while no valid session exists; and once no call is in
\* progress, the id of the last call that returned is the one in storage.
C39_CallsAgreeOnTheSessionId ==
    /\ \A j, k \in 1..Len(returned) :
           (ValidAt(returned[j], returned[k]) /\ ValidAt(returned[k], returned[j]))
               => returned[j].id = returned[k].id
    /\ (returned # << >> /\ \A c \in Callers : sessionCall[c].pc = "idle")
           => /\ storage # None
              /\ storage[1].sessionId = returned[Len(returned)].id

\* two calls that overlapped while storage held no session have returned
\* two ids, and storage holds the second one only
C39_Witness ==
    /\ Len(returned) = 2
    /\ returned[1].at = returned[2].at
    /\ returned[1].id # returned[2].id
    /\ ~returned[1].alone
    /\ ~returned[2].alone
    /\ Len(created) = 2
    /\ storage # None
    /\ storage[1].sessionId = returned[2].id

(***************************************************************************)
(* Properties of the quiz page.                                            *)
(***************************************************************************)
\* C40: the completion screen is reached only after a save has succeeded; a
\* failed save leaves currentQuestion and the collected answers as they are
\* (on the last question, so that "Finish" can be clicked again); and
\* currentQuestion stays within 1..totalQuestions + 1.
C40_CompletionOnlyAfterSave ==
    /\ [](currentQuestion > totalQuestions => okSaves > 0)
    /\ [](currentQuestion \in 1..(totalQuestions + 1))
    /\ [][failedSaves' # failedSaves =>
             /\ currentQuestion' = currentQuestion
             /\ answers' = answers
             /\ ~closed']_vars

\* two clicks on "Finish" have started two saves and both have succeeded:
\* currentQuestion is one past the completion screen
C40_Witness ==
    /\ currentQuestion = totalQuestions + 2
    /\ okSaves = 2
    /\ saving = 0

(***************************************************************************)
(* Properties of the pure functions.                                       *)
(***************************************************************************)
\* the mapping an object denotes: its pairs without their order, at every depth
RECURSIVE AsMapping(_)
AsMapping(p) ==
    {IF Len(p[k]) = 3 THEN <<p[k][1], p[k][2], AsMapping(p[k][3])>> ELSE p[k] :
        k \in 1..Len(p)}

\* C13: two calls of get_profile_version whose arguments denote the same
\* mapping (the same profile, or the same profile with its keys in another
\* order at any depth) return the same version.
C13_VersionIgnoresKeyOrder ==
    \A j, k \in 1..Len(versionCalls) :
        AsMapping(versionCalls[j].arg) = AsMapping(versionCalls[k].arg) =>
            versionCalls[j].result = versionCalls[k].result

\* C13 witness: two calls on one profile written in two key orders that
\* differ at the top level and inside the nested object
C13_Witness ==
    \E j, k \in 1..Len(versionCalls) :
        LET a == versionCalls[j].arg
            b == versionCalls[k].arg
        IN /\ AsMapping(a) = AsMapping(b)
           /\ Len(a) = 3
           /\ a[1] # b[1]
           /\ \E m, n \in 1..3 : Len(a[m]) = 3 /\ Len(b[n]) = 3 /\ a[m][3] # b[n][3]
           /\ versionCalls[j].result = versionCalls[k].result

\* the sum of calculate_cost before rounding, in 1e-8 USD
ExactCost(tokens, model) ==
    tokens.input * PRICING[model].input + tokens.output * PRICING[model].output
    + tokens.cache_read * PRICING[model].cache_read
    + tokens.cache_write * PRICING[model].cache_write

\* the usage with the tokens of one category only
Only(tokens, category) ==
    [c \in {"input", "output", "cache_read", "cache_write"} |->
        IF c = category THEN tokens[c] ELSE 0]

\* the sum of the costs of the four categories taken one by one
CostByCategory(tokens, model) ==
    calculate_cost(Only(tokens, "input"), model)
    + calculate_cost(Only(tokens, "output"), model)
    + calculate_cost(Only(tokens, "cache_read"), model)
    + calculate_cost(Only(tokens, "cache_write"), model)

NonNegative(tokens) ==
    tokens.input >= 0 /\ tokens.output >= 0 /\ tokens.cache_read >= 0 /\ tokens.cache_write >= 0

Abs(x) == IF x < 0 THEN -x ELSE x

\* a call with a known model and non-negative counts
CostCase(call) == call.model \in DOMAIN PRICING /\ NonNegative(call.tokens)

\* C14 as stated: for a known model and non-negative counts the cost is the
\* sum of tokens x rate / 1,000,000 over the four categories, is 0 for the
\* all-zero usage, is the sum of the costs of the categories, and is not
\* negative.
C14_CostIsExactSum ==
    \A k \in 1..Len(lastCost) :
        CostCase(lastCost[k]) =>
            LET tokens == lastCost[k].tokens
                model == lastCost[k].model
                cost == lastCost[k].outcome.value
            IN /\ lastCost[k].outcome.raised = ""
               /\ cost * 100 = ExactCost(tokens, model)
               /\ (tokens = ZeroUsage => cost = 0)
               /\ cost = CostByCategory(tokens, model)
               /\ cost >= 0

\* C14 amended: the cost is that sum rounded to 6 decimals (at most half a
\* micro-dollar from it), is 0 for the all-zero usage, differs from the sum of
\* the costs of the categories by at most 2 micro-dollars, and is not negative.
C14_CostIsRoundedSum ==
    \A k \in 1..Len(lastCost) :
        CostCase(lastCost[k]) =>
            LET tokens == lastCost[k].tokens
                model == lastCost[k].model
                cost == lastCost[k].outcome.value
            IN /\ lastCost[k].outcome.raised = ""
               /\ Abs(cost * 100 - ExactCost(tokens, model)) <= 50
               /\ (tokens = ZeroUsage => cost = 0)
               /\ Abs(cost - CostByCategory(tokens, model)) <= 2
               /\ cost >= 0

\* C14 witness: a call whose sum is not a whole number of micro-dollars and is
\* rounded up
C14_Witness ==
    \E k \in 1..Len(lastCost) :
        /\ CostCase(lastCost[k])
        /\ ExactCost(lastCost[k].tokens, lastCost[k].model) % 100 > 50
        /\ lastCost[k].outcome.value * 100 > ExactCost(lastCost[k].tokens, lastCost[k].model)

\* C15: a call of calculate_cost with a model that has no pricing record
\* raises, whatever the usage, and returns no amount.
C15_UnknownModelRaises ==
    \A k \in 1..Len(lastCost) :
        lastCost[k].model \notin DOMAIN PRICING => lastCost[k].outcome.raised # ""

\* C15 witness: a call with an unpriced model and a usage that would cost
\* something
C15_Witness ==
    \E k \in 1..Len(lastCost) :
        /\ lastCost[k].model = UNPRICED_MODEL
        /\ lastCost[k].tokens.input > 0
        /\ lastCost[k].outcome.raised = "KeyError"

\* C16: a call of calculate_cost with a negative token count raises, and no
\* call returns a negative amount.
C16_NegativeCountsAreRejected ==
    \A k \in 1..Len(lastCost) :
        /\ ~NonNegative(lastCost[k].tokens) => lastCost[k].outcome.raised # ""
        /\ lastCost[k].outcome.raised = "" => lastCost[k].outcome.value >= 0

\* C16 witness: a call with a known model and one negative count
C16_Witness ==
    \E k \in 1..Len(lastCost) :
        /\ lastCost[k].model \in DOMAIN PRICING
        /\ lastCost[k].tokens.input = -1
        /\ lastCost[k].outcome.value < 0

====
